---- MODULE Spec2Model ----
(***************************************************************************)
(* Verification model of CrazyCha/service-quota-monitor.                   *)
(*                                                                         *)
(* The module holds one state machine per component of the exporter:       *)
(*   SpecMemCache   cache/cache.py              MemoryCache                *)
(*   SpecFileCache  cache/quota_limit_cache.py  QuotaLimitCache            *)
(*   SpecCollector  collector/collector.py      QuotaCollector             *)
(*   SpecDiscovery  provider/aws/sagemaker_discovery.py                    *)
(*                                              SageMakerDiscovery         *)
(*   SpecWorker     main.py                     _collect_account_quotas    *)
(*   SpecScheduler  scheduler/scheduler.py      QuotaScheduler             *)
(*   SpecRegions    provider/discovery/active_region_discoverer.py         *)
(*                                              ActiveRegionDiscoverer     *)
(*   SpecCycle      main.py                     collect_quotas             *)
(* Each specification moves only the variables of its component (the       *)
(* worker also writes the files of the QuotaLimitCache); the variables of  *)
(* the other components stay at their constructed value.                   *)
(***************************************************************************)
EXTENDS Integers, Sequences, FiniteSets, TLC

VARIABLES
    now,            \* time.time(), in whole seconds
    mem_cache,      \* MemoryCache._cache : key -> (value, expiration_time)
    mem_ret,        \* the return value of the last MemoryCache.get
    mem_last_set,   \* history: key -> the set() still in force for the key
    qlc_files,      \* QuotaLimitCache files : (account, region, service) -> JSON
    qlc_ret,        \* the return value of the last QuotaLimitCache.get
    qlc_written,    \* history: (scope, quota_code) -> time of its last set()
    results,        \* QuotaCollector.results : list of QuotaResult
    usage_data,     \* QuotaCollector.usage_data : (account, region, service) -> snapshot
    quota_limit,    \* gauge cloud_service_quota_limit : labels -> value
    quota_usage,    \* gauge cloud_service_quota_usage : labels -> value
    quota_usage_percent,   \* gauge cloud_quota_usage_percent : labels -> value
    scrape_errors_total,   \* counter : (service, quota_code, error_type) -> count
    scrape_skipped_total,  \* counter : (service, reason) -> count
    coll_last,      \* the last call made on the QuotaCollector and its arguments
    disc_config,    \* SageMakerDiscovery.config : DiscoveryConfig
    disc_remote,    \* what ListServiceQuotas answers: a catalog or an error
    disc_ret,       \* the return value of the last discover_quotas
    w_pc,           \* where the worker of _collect_account_quotas stands
    w_account_id,   \* its argument account_id
    collect_limit,  \* its argument collect_limit
    collect_usage,  \* its argument collect_usage
    force_refresh,  \* FORCE_REFRESH_QUOTA_LIMITS as read by is_force_refresh()
    w_fallback,     \* history: the region provider returned no region
    w_regions,      \* the regions still to visit
    w_region,       \* the region being visited
    sq_client,      \* the region of the ServiceQuotasClient in use, or None
    w_usage_todo,   \* the services the usage loop has still to visit
    w_limit_todo,   \* the services the limit loop has still to visit
    w_service,      \* the service and service_region of the limit loop
    w_quotas,       \* the quotas of w_service still to fetch
    retry_count,    \* retry_count of the retry loop
    w_fetch,        \* history: the calls and sleeps of the current quota fetch
    region_results, \* region_results of _collect_account_region_quotas
    account_results,\* account_results of _collect_account_quotas
    running,        \* QuotaScheduler._running
    limit_interval, \* QuotaScheduler.limit_interval, in ticks of the clock
    usage_interval, \* QuotaScheduler.usage_interval, in ticks of the clock
    threads,        \* the loop threads start() created, per loop, oldest first
    region_candidates,   \* what get_region_candidates reads from the CMDB
    account_credentials, \* account -> whether its credentials are complete
    ard_files,      \* ActiveRegionDiscoverer cache files : account -> JSON
    ard_last,       \* history: the last discovery call, its arguments and result
    cy_pc,          \* where collect_quotas stands
    accounts,       \* account_provider.get_accounts()
    use_concurrent, \* USE_CONCURRENT_COLLECTION
    cy_regions,     \* account -> region_provider.get_regions(account)
    cy_fail,        \* the quota codes whose limit fetch raises in this cycle
    cy_usage,       \* the services whose usage collector answers data
    cycle_collect_limit,  \* the argument collect_limit of collect_quotas
    cycle_collect_usage,  \* the argument collect_usage of collect_quotas
    cycle_force_refresh,  \* FORCE_REFRESH_QUOTA_LIMITS
    workers,        \* account -> the future of its pool task and its items
    all_results,    \* all_results of collect_quotas
    usage_data_list,\* usage_data_list of the concurrent branch
    cy_fetches,     \* history: the static quota evaluations of the cycle
    cy_start,       \* history: the aggregator and the cache files at cycle start
    rp_pc,          \* main: before or after the start-up region discovery
    ec2_regions_cache, \* CMDBRegionProvider._ec2_regions_cache
    rp_discovered,  \* history: account -> when its cached region set was discovered
    rp_last,        \* history: the last get_regions call
    cy_catalog,     \* input of a cycle: the answer of ListServiceQuotas
    cy_creds,       \* input of a cycle: account -> what get_credentials does
    cy_client_fail, \* input of a cycle: the regions for which the construction
                    \* of a ServiceQuotasClient raises
    entry_pc,       \* entry point -> where its collect_quotas call stands
    entry_todo,     \* entry point -> the aggregator calls its cycle still makes
    entry_runs,     \* entry point -> the number of its calls so far
    write_log,      \* (history) who made each aggregator call: <<entry, run>>
    cy_clients,     \* history: the clients and collectors a cycle called, with
                    \* the credentials they were given
    cy_discoveries, \* history: the discover_quotas calls of a cycle
    tj_pc,          \* get_training_job_count: "idle", "paging", "returned", "raised"
    tj_max_pages,   \* its argument max_pages
    tj_timeout_seconds, \* its argument timeout_seconds
    page_count,     \* its local page_count
    tj_count,       \* its local count
    tj_elapsed,     \* time.time() - start_time, in seconds
    no_progress_pages, \* its local no_progress_pages
    tj_ret,         \* the value it returned
    tj_consumed     \* history: the sum of the sizes of the pages the paginator gave

memVars == <<mem_cache, mem_ret, mem_last_set>>
qlcVars == <<qlc_files, qlc_ret, qlc_written>>
gaugeVars == <<quota_limit, quota_usage, quota_usage_percent>>
collVars == <<results, usage_data, gaugeVars, scrape_errors_total, scrape_skipped_total,
              coll_last>>
discVars == <<disc_config, disc_remote, disc_ret>>
workerVars == <<w_pc, w_account_id, collect_limit, collect_usage, force_refresh, w_fallback,
                w_regions, w_region, sq_client, w_usage_todo, w_limit_todo, w_service,
                w_quotas, retry_count, w_fetch, region_results, account_results>>
schedVars == <<running, limit_interval, usage_interval, threads>>
ardVars == <<region_candidates, account_credentials, ard_files, ard_last>>
cycleVars == <<cy_pc, accounts, use_concurrent, cy_regions, cy_fail, cy_usage,
               cycle_collect_limit, cycle_collect_usage, cycle_force_refresh, workers,
               all_results, usage_data_list, cy_fetches>>
regionProviderVars == <<rp_pc, ec2_regions_cache, rp_discovered, rp_last>>
cycleInputVars == <<cy_catalog, cy_creds, cy_client_fail>>
cycleLogVars == <<cy_clients, cy_discoveries>>
trainingJobVars == <<tj_pc, tj_max_pages, tj_timeout_seconds, page_count, tj_count,
                     tj_elapsed, no_progress_pages, tj_ret, tj_consumed>>
entryVars == <<entry_pc, entry_todo, entry_runs, write_log>>
laterVars == <<trainingJobVars, entryVars>>
moreVars == <<cy_start, regionProviderVars, cycleInputVars, cycleLogVars, laterVars>>
extVars == <<schedVars, ardVars, cycleVars, moreVars>>
vars == <<now, memVars, qlcVars, collVars, discVars, workerVars, extVars>>

None == "None"

(***************************************************************************)
(* Bounds of the model.                                                    *)
(***************************************************************************)
MaxTime == 3        \* the clock runs over 0..MaxTime
MaxTtl == 2         \* ttl arguments of MemoryCache.set are 0..MaxTtl
MaxResults == 2     \* add_result is called while len(results) < MaxResults
CacheTtl == 2       \* QuotaLimitCache.cache_ttl (constructor argument)

Keys == {"k1", "k2"}
Values == {"v1", "v2"}

Accounts == {"a1", "a2"}
DefaultRegion == "us-east-1"
CacheRegions == {"us-east-1"}
CacheServices == {"ec2"}
CacheCodes == {"q1", "q2"}
QuotaData == {"d1", "empty"}   \* "empty" is a falsy payload ({})

Scopes == Accounts \X CacheRegions \X CacheServices

(***************************************************************************)
(* The clock.                                                              *)
(***************************************************************************)
Tick ==
    /\ now < MaxTime
    /\ now' = now + 1

(***************************************************************************)
(* MemoryCache (cache/cache.py)                                            *)
(***************************************************************************)
MemNoRet == [called |-> FALSE, key |-> "k1", value |-> None, exists |-> FALSE, at |-> 0]

MemInit ==
    /\ mem_cache = << >>
    /\ mem_ret = MemNoRet
    /\ mem_last_set = << >>

\* Remove key k from a dict.
DictDel(d, k) == [x \in DOMAIN d \ {k} |-> d[x]]

\* d[k] = v on a dict.
DictPut(d, k, v) == [x \in DOMAIN d \cup {k} |-> IF x = k THEN v ELSE d[x]]

\* The expiry test of MemoryCache.get: time.time() > expiration_time.
MemExpired(t, expiration_time) == t > expiration_time

MemGet(key) ==
    /\ IF key \notin DOMAIN mem_cache
       THEN /\ mem_ret' = [called |-> TRUE, key |-> key, value |-> None, exists |-> FALSE, at |-> now]
            /\ mem_cache' = mem_cache
       ELSE IF MemExpired(now, mem_cache[key].expiration_time)
            THEN /\ mem_cache' = DictDel(mem_cache, key)
                 /\ mem_ret' = [called |-> TRUE, key |-> key, value |-> None, exists |-> FALSE, at |-> now]
            ELSE /\ mem_cache' = mem_cache
                 /\ mem_ret' = [called |-> TRUE, key |-> key, value |-> mem_cache[key].value,
                                exists |-> TRUE, at |-> now]
    /\ UNCHANGED mem_last_set

MemSet(key, value, ttl) ==
    /\ mem_cache' = DictPut(mem_cache, key, [value |-> value, expiration_time |-> now + ttl])
    /\ mem_last_set' = DictPut(mem_last_set, key, [value |-> value, time |-> now, ttl |-> ttl])
    /\ mem_ret' = MemNoRet

MemDelete(key) ==
    /\ mem_cache' = (IF key \in DOMAIN mem_cache THEN DictDel(mem_cache, key) ELSE mem_cache)
    /\ mem_last_set' = DictDel(mem_last_set, key)
    /\ mem_ret' = MemNoRet

MemClear ==
    /\ mem_cache' = << >>
    /\ mem_last_set' = << >>
    /\ mem_ret' = MemNoRet

MemCleanupExpired ==
    /\ mem_cache' = [k \in {x \in DOMAIN mem_cache : ~(now > mem_cache[x].expiration_time)}
                        |-> mem_cache[k]]
    /\ mem_ret' = MemNoRet
    /\ UNCHANGED mem_last_set

(***************************************************************************)
(* QuotaLimitCache (cache/quota_limit_cache.py)                            *)
(***************************************************************************)
QlcNoRet == [called |-> FALSE, scope |-> <<"a1", "us-east-1", "ec2">>, quota_code |-> "q1",
             value |-> None, at |-> 0]

QlcInit ==
    /\ qlc_files = << >>
    /\ qlc_ret = QlcNoRet
    /\ qlc_written = << >>

\* _get_cache_file_path: one file per (account_id, region, service).
GetCacheFilePath(account_id, region, service) == <<account_id, region, service>>

\* The expiry test of QuotaLimitCache.get: time.time() - cache_time > cache_ttl.
QlcExpired(t, cache_time) == t - cache_time > CacheTtl

\* The value QuotaLimitCache.get returns for a file content.
QlcLookup(files, cache_file, quota_code, t) ==
    IF cache_file \notin DOMAIN files THEN None
    ELSE IF QlcExpired(t, files[cache_file].timestamp) THEN None
    ELSE IF quota_code \notin DOMAIN files[cache_file].quotas THEN None
    ELSE IF files[cache_file].quotas[quota_code] = "empty" THEN None
    ELSE files[cache_file].quotas[quota_code]

QlcGet(account_id, region, service, quota_code) ==
    LET cache_file == GetCacheFilePath(account_id, region, service) IN
    /\ qlc_ret' = [called |-> TRUE, scope |-> cache_file, quota_code |-> quota_code,
                   value |-> QlcLookup(qlc_files, cache_file, quota_code, now), at |-> now]
    /\ UNCHANGED <<qlc_files, qlc_written>>

\* The file content QuotaLimitCache.set writes: read-modify-write of the
\* whole file, with one timestamp for the file.
QlcStore(files, cache_file, quota_code, quota_data, t) ==
    LET old == IF cache_file \in DOMAIN files THEN files[cache_file].quotas ELSE << >>
    IN DictPut(files, cache_file,
               [timestamp |-> t, quotas |-> DictPut(old, quota_code, quota_data)])

QlcSet(account_id, region, service, quota_code, quota_data) ==
    LET cache_file == GetCacheFilePath(account_id, region, service) IN
    /\ qlc_files' = QlcStore(qlc_files, cache_file, quota_code, quota_data, now)
    /\ qlc_written' = DictPut(qlc_written, <<cache_file, quota_code>>, now)
    /\ qlc_ret' = QlcNoRet

\* clear(account_id, region, service): None arguments widen the removal.
QlcClear(account_id, region, service) ==
    LET gone(f) ==
            IF account_id # None /\ region # None /\ service # None
            THEN f = GetCacheFilePath(account_id, region, service)
            ELSE IF account_id # None /\ region # None
            THEN f[1] = account_id /\ f[2] = region
            ELSE IF account_id # None
            THEN f[1] = account_id
            ELSE TRUE
    IN
    /\ qlc_files' = [f \in {x \in DOMAIN qlc_files : ~gone(x)} |-> qlc_files[f]]
    /\ qlc_written' = [w \in {x \in DOMAIN qlc_written : ~gone(x[1])} |-> qlc_written[w]]
    /\ qlc_ret' = QlcNoRet

(***************************************************************************)
(* QuotaCollector (collector/collector.py)                                 *)
(*                                                                         *)
(* Gauge values are exact rationals <<numerator, denominator>>; float('nan')*)
(* is <<0, 0>>.  Rounding of the float division is not modelled.           *)
(***************************************************************************)
NaN == <<0, 0>>
Num(n) == <<n, 1>>

RECURSIVE GCD(_, _)
GCD(a, b) == IF b = 0 THEN a ELSE GCD(b, a % b)

\* The float a / b for b > 0, as a reduced fraction.
Ratio(a, b) == LET g == GCD(a, b) IN <<a \div g, b \div g>>

CollAccounts == {"a1", "a2"}
CollRegions == {"us-east-1"}
CollServices == {"ec2"}
CollCodes == {"q1", "q2"}
CollNames == {"n1"}
LimitValues == {0, 200}
UsageValues == {0, 50}
ErrorTexts == {"NoSuchResourceException", "AccessDeniedException", "TooManyRequestsException"}

\* quota_info of a QuotaResult: None, or the dict main.py builds
\* (value plus the account_id and region of the result).
NoQuotaInfo == [present |-> FALSE, value |-> 0, account_id |-> None, region |-> None]
QuotaInfo(value, account_id, region) ==
    [present |-> TRUE, value |-> value, account_id |-> account_id, region |-> region]

QuotaResult(service, quota_code, quota_name, status, account_id, region, reason, quota_info, error) ==
    [service |-> service, quota_code |-> quota_code, quota_name |-> quota_name,
     status |-> status, account_id |-> account_id, region |-> region,
     reason |-> reason, quota_info |-> quota_info, error |-> error]

is_success(r) == r.status = "success"
is_skipped(r) == r.status = "skipped"
is_failed(r) == r.status = "failed"

\* The label set of the three gauges (provider is always 'aws').
Labels(account_id, region, service, quota_name, quota_code) ==
    [account_id |-> account_id, region |-> region, service |-> service,
     quota_name |-> quota_name, quota_code |-> quota_code]

\* coll_last names the last call: for add_result the result is the last
\* element of results, for set_usage_data the snapshot is usage_data[key].
CollNoCall == [op |-> "none", key |-> <<None, None, None>>]

CollInit ==
    /\ results = << >>
    /\ usage_data = << >>
    /\ quota_limit = << >>
    /\ quota_usage = << >>
    /\ quota_usage_percent = << >>
    /\ scrape_errors_total = << >>
    /\ scrape_skipped_total = << >>
    /\ coll_last = CollNoCall

\* _get_usage_value: usage_data.get(key, {}).get(quota_code); None when absent.
HasUsageValue(ud, account_id, region, service, quota_code) ==
    /\ <<account_id, region, service>> \in DOMAIN ud
    /\ quota_code \in DOMAIN ud[<<account_id, region, service>>]

GetUsageValue(ud, account_id, region, service, quota_code) ==
    ud[<<account_id, region, service>>][quota_code]

\* Variant of PercentValue: a zero limit yields 0 instead of not-a-number.
PercentValue_ZeroLimit(usage_value, limit_value) ==
    IF limit_value > 0 THEN Ratio(usage_value * 100, limit_value) ELSE Num(0)

\* The usage-percent value both add_result and set_usage_data compute.
PercentValue(usage_value, limit_value) ==
    IF limit_value > 0 THEN Ratio(usage_value * 100, limit_value) ELSE NaN

\* Counter.labels(...).inc()
Inc(counter, k) ==
    DictPut(counter, k, IF k \in DOMAIN counter THEN counter[k] + 1 ELSE 1)

\* The error_type add_result derives from result.error.
ErrorType(error) ==
    IF error = "NoSuchResourceException" THEN "quota_not_found"
    ELSE IF error = "AccessDeniedException" THEN "permission_denied"
    ELSE "api_error"

\* Variant of GaugesAfterSuccess: the limit gauge accumulates (inc) instead
\* of being overwritten (set).
GaugesAfterSuccess_Inc(g, ud, result) ==
    LET limit_value == IF result.quota_info.present THEN result.quota_info.value ELSE 0
        labels == Labels(result.account_id, result.region, result.service,
                         result.quota_name, result.quota_code)
        found == HasUsageValue(ud, result.account_id, result.region, result.service,
                               result.quota_code)
        usage_value == GetUsageValue(ud, result.account_id, result.region, result.service,
                                     result.quota_code)
        old == IF labels \in DOMAIN g.limit THEN g.limit[labels][1] ELSE 0
    IN [limit |-> DictPut(g.limit, labels, Num(old + limit_value)),
        usage |-> DictPut(g.usage, labels, IF found THEN Num(usage_value) ELSE NaN),
        percent |-> DictPut(g.percent, labels,
                            IF found THEN PercentValue(usage_value, limit_value) ELSE NaN)]

\* Variant of GaugesAfterSuccess: a missing usage value defaults to 0.
GaugesAfterSuccess_DefaultZero(g, ud, result) ==
    LET limit_value == IF result.quota_info.present THEN result.quota_info.value ELSE 0
        labels == Labels(result.account_id, result.region, result.service,
                         result.quota_name, result.quota_code)
        found == HasUsageValue(ud, result.account_id, result.region, result.service,
                               result.quota_code)
        usage_value == IF found
                       THEN GetUsageValue(ud, result.account_id, result.region,
                                          result.service, result.quota_code)
                       ELSE 0
    IN [limit |-> DictPut(g.limit, labels, Num(limit_value)),
        usage |-> DictPut(g.usage, labels, Num(usage_value)),
        percent |-> DictPut(g.percent, labels, PercentValue(usage_value, limit_value))]

\* The gauges after add_result of a Success result.
GaugesAfterSuccess(g, ud, result) ==
    LET limit_value == IF result.quota_info.present THEN result.quota_info.value ELSE 0
        labels == Labels(result.account_id, result.region, result.service,
                         result.quota_name, result.quota_code)
        found == HasUsageValue(ud, result.account_id, result.region, result.service,
                               result.quota_code)
        usage_value == GetUsageValue(ud, result.account_id, result.region, result.service,
                                     result.quota_code)
    IN [limit |-> DictPut(g.limit, labels, Num(limit_value)),
        usage |-> DictPut(g.usage, labels, IF found THEN Num(usage_value) ELSE NaN),
        percent |-> DictPut(g.percent, labels,
                            IF found THEN PercentValue(usage_value, limit_value) ELSE NaN)]

Gauges == [limit |-> quota_limit, usage |-> quota_usage, percent |-> quota_usage_percent]

SetGauges(g) ==
    /\ quota_limit' = g.limit
    /\ quota_usage' = g.usage
    /\ quota_usage_percent' = g.percent

add_result(result) ==
    /\ results' = Append(results, result)
    /\ coll_last' = [op |-> "add_result",
                     key |-> <<result.account_id, result.region, result.service>>]
    /\ IF is_success(result)
       THEN /\ SetGauges(GaugesAfterSuccess(Gauges, usage_data, result))
            /\ UNCHANGED <<scrape_errors_total, scrape_skipped_total>>
       ELSE IF is_skipped(result)
       THEN /\ scrape_skipped_total' =
                    Inc(scrape_skipped_total,
                        <<result.service, IF result.reason = None THEN "unknown" ELSE result.reason>>)
            /\ UNCHANGED <<gaugeVars, scrape_errors_total>>
       ELSE /\ scrape_errors_total' =
                    Inc(scrape_errors_total,
                        <<result.service, result.quota_code, ErrorType(result.error)>>)
            /\ UNCHANGED <<gaugeVars, scrape_skipped_total>>
    /\ UNCHANGED usage_data

\* First loop of set_usage_data: Success results of the scope, matched on
\* the account_id and region stored in quota_info.
RECURSIVE UsageSuccessPass(_, _, _, _, _, _, _)
UsageSuccessPass(g, rs, i, account_id, region, service, ud) ==
    IF i > Len(rs) THEN g
    ELSE LET result == rs[i]
             labels == Labels(account_id, region, service, result.quota_name, result.quota_code)
             hit == /\ is_success(result)
                    /\ result.quota_info.present
                    /\ result.quota_info.account_id = account_id
                    /\ result.quota_info.region = region
                    /\ result.service = service
                    /\ result.quota_code \in DOMAIN ud
         IN UsageSuccessPass(
                IF hit
                THEN [g EXCEPT !.usage = DictPut(g.usage, labels, Num(ud[result.quota_code])),
                               !.percent = DictPut(g.percent, labels,
                                                   PercentValue(ud[result.quota_code],
                                                                result.quota_info.value))]
                ELSE g,
                rs, i + 1, account_id, region, service, ud)

\* Variant of UsageSkippedPass: a Skipped result with usage also gets a
\* limit entry of 0.
RECURSIVE UsageSkippedPass_ZeroLimit(_, _, _, _, _, _, _)
UsageSkippedPass_ZeroLimit(g, rs, i, account_id, region, service, ud) ==
    IF i > Len(rs) THEN g
    ELSE LET result == rs[i]
             labels == Labels(account_id, region, service, result.quota_name, result.quota_code)
             hit == /\ is_skipped(result)
                    /\ result.account_id = account_id
                    /\ result.region = region
                    /\ result.service = service
                    /\ result.quota_code \in DOMAIN ud
         IN UsageSkippedPass_ZeroLimit(
                IF hit
                THEN [g EXCEPT !.usage = DictPut(g.usage, labels, Num(ud[result.quota_code])),
                               !.percent = DictPut(g.percent, labels, NaN),
                               !.limit = DictPut(g.limit, labels, Num(0))]
                ELSE g,
                rs, i + 1, account_id, region, service, ud)

\* Second loop of set_usage_data: Skipped results of the scope.
RECURSIVE UsageSkippedPass(_, _, _, _, _, _, _)
UsageSkippedPass(g, rs, i, account_id, region, service, ud) ==
    IF i > Len(rs) THEN g
    ELSE LET result == rs[i]
             labels == Labels(account_id, region, service, result.quota_name, result.quota_code)
             hit == /\ is_skipped(result)
                    /\ result.account_id = account_id
                    /\ result.region = region
                    /\ result.service = service
                    /\ result.quota_code \in DOMAIN ud
         IN UsageSkippedPass(
                IF hit
                THEN [g EXCEPT !.usage = DictPut(g.usage, labels, Num(ud[result.quota_code])),
                               !.percent = DictPut(g.percent, labels, NaN)]
                ELSE g,
                rs, i + 1, account_id, region, service, ud)

set_usage_data(account_id, region, service, ud) ==
    /\ usage_data' = DictPut(usage_data, <<account_id, region, service>>, ud)
    /\ SetGauges(UsageSkippedPass(
                    UsageSuccessPass(Gauges, results, 1, account_id, region, service, ud),
                    results, 1, account_id, region, service, ud))
    /\ coll_last' = [op |-> "set_usage_data", key |-> <<account_id, region, service>>]
    /\ UNCHANGED <<results, scrape_errors_total, scrape_skipped_total>>

(***************************************************************************)
(* SageMakerDiscovery (provider/aws/sagemaker_discovery.py)                *)
(*                                                                         *)
(* A string is the sequence of its characters, so that str.lower() and the *)
(* substring test `in` are computed character by character.                *)
(***************************************************************************)
MaxRules == 2       \* len(config.match_rules) is 0..MaxRules
MaxCatalog == 2     \* ListServiceQuotas answers 0..MaxCatalog quotas

UpperChars ==
    <<"A", "B", "C", "D", "E", "F", "G", "H", "I", "J", "K", "L", "M",
      "N", "O", "P", "Q", "R", "S", "T", "U", "V", "W", "X", "Y", "Z">>
LowerChars ==
    <<"a", "b", "c", "d", "e", "f", "g", "h", "i", "j", "k", "l", "m",
      "n", "o", "p", "q", "r", "s", "t", "u", "v", "w", "x", "y", "z">>

\* str.lower() of one character.
LowerChar(c) ==
    IF \E i \in 1..26 : UpperChars[i] = c
    THEN LowerChars[CHOOSE i \in 1..26 : UpperChars[i] = c]
    ELSE c

\* str.lower().
StrLower(s) == [i \in 1..Len(s) |-> LowerChar(s[i])]

\* `sub in s` on two strings.
StrContains(sub, s) ==
    \E off \in 0..(Len(s) - Len(sub)) : \A j \in 1..Len(sub) : s[off + j] = sub[j]

\* Quota names of the remote catalog.
NotebookInstanceUsage ==
    <<"N", "o", "t", "e", "b", "o", "o", "k", " ", "i", "n", "s", "t",
    "a", "n", "c", "e", " ", "u", "s", "a", "g", "e">>
NotebookInstanceCount ==
    <<"N", "o", "t", "e", "b", "o", "o", "k", " ", "i", "n", "s", "t",
    "a", "n", "c", "e", " ", "c", "o", "u", "n", "t">>
UsageOfNotebooks ==
    <<"U", "S", "A", "G", "E", " ", "o", "f", " ", "N", "o", "t", "e",
    "B", "o", "o", "k", "s">>
EmptyName == << >>

\* Keywords of the match rules.
KwNotebook ==
    <<"n", "o", "t", "e", "b", "o", "o", "k">>
KwUsage ==
    <<"u", "s", "a", "g", "e">>
KwCount ==
    <<"C", "O", "U", "N", "T">>
KwInstance ==
    <<"I", "n", "s", "t", "a", "n", "c", "e">>
KwGpu ==
    <<"g", "p", "u">>

\* The rules of a configuration: each is a dict with the key name_contains.
RulePool ==
    { [name_contains |-> << >>],
      [name_contains |-> <<KwNotebook, KwUsage>>],
      [name_contains |-> <<KwCount>>],
      [name_contains |-> <<KwInstance, KwGpu>>] }

\* The entries ListServiceQuotas can answer.
CatalogPool ==
    { [quota_code |-> "L-NB1", quota_name |-> NotebookInstanceUsage],
      [quota_code |-> "L-NB2", quota_name |-> NotebookInstanceCount],
      [quota_code |-> "L-NB3", quota_name |-> UsageOfNotebooks],
      [quota_code |-> "", quota_name |-> EmptyName] }

\* Sequences over S of length 0..n.
SeqsUpTo(S, n) == UNION {[1..k -> S] : k \in 0..n}

DiscoveryConfig(match_rules, default_priority) ==
    [enabled |-> TRUE, match_rules |-> match_rules, default_priority |-> default_priority]

QuotaItem(quota_code, quota_name, priority) ==
    [quota_code |-> quota_code, quota_name |-> quota_name, priority |-> priority]

DiscNoRet == [called |-> FALSE, value |-> << >>]

DiscInit ==
    /\ disc_config = DiscoveryConfig(<< >>, "high")
    /\ disc_remote = [ok |-> TRUE, quotas |-> << >>]
    /\ disc_ret = DiscNoRet

\* all(keyword.lower() in quota_name_lower for keyword in keywords), with
\* any() in the place of all().
RuleMatches_Any(rule, quota_name_lower) ==
    \E k \in 1..Len(rule.name_contains) :
        StrContains(StrLower(rule.name_contains[k]), quota_name_lower)

\* all(keyword.lower() in quota_name_lower for keyword in keywords)
RuleMatches(rule, quota_name_lower) ==
    \A k \in 1..Len(rule.name_contains) :
        StrContains(StrLower(rule.name_contains[k]), quota_name_lower)

\* _matches_rules: True at the first rule that matches, False after the loop.
RECURSIVE matches_rules(_, _, _)
matches_rules(match_rules, rule_idx, quota_name) ==
    IF rule_idx > Len(match_rules) THEN FALSE
    ELSE IF RuleMatches(match_rules[rule_idx], StrLower(quota_name)) THEN TRUE
    ELSE matches_rules(match_rules, rule_idx + 1, quota_name)

\* The loop of discover_quotas over the catalog.
RECURSIVE MatchedQuotas(_, _, _)
MatchedQuotas(config, all_quotas, i) ==
    IF i > Len(all_quotas) THEN << >>
    ELSE LET quota == all_quotas[i]
             rest == MatchedQuotas(config, all_quotas, i + 1)
         IN IF matches_rules(config.match_rules, 1, quota.quota_name)
            THEN <<QuotaItem(quota.quota_code, quota.quota_name, config.default_priority)>>
                 \o rest
            ELSE rest

\* discover_quotas(region): an exception of the catalog call is caught and
\* the empty list returned.
discover_quotas ==
    /\ ~disc_ret.called
    /\ disc_ret' = [called |-> TRUE,
                    value |-> IF disc_remote.ok
                              THEN MatchedQuotas(disc_config, disc_remote.quotas, 1)
                              ELSE << >>]
    /\ UNCHANGED <<disc_config, disc_remote>>

(***************************************************************************)
(* The collection worker (main.py): _collect_account_quotas and, for each  *)
(* region, _collect_account_region_quotas.  The region provider, the usage *)
(* collectors and the Service Quotas API are the environment: each call    *)
(* picks one of the answers they can give.  Sleeps are recorded in         *)
(* milliseconds; the clock `now` counts in the unit of the cache TTL.      *)
(***************************************************************************)
max_retries == 3                \* max_retries of the retry loop
PreFetchDelayMs == 100          \* time.sleep(0.1) before the first call
BackoffBaseMs == 2000           \* wait_time = (2 ** retry_count) * 2 seconds
ClientThrottleSleepMs == 2000   \* time.sleep(2) in get_service_quota

global_services == {"route53", "cloudfront"}
regional_services == {"ec2", "ebs", "elasticloadbalancing", "eks", "elasticache", "sagemaker"}

\* The fixed order of the usage loop.
UsageServiceOrder ==
    <<"ec2", "ebs", "elasticloadbalancing", "eks", "elasticache", "route53", "cloudfront",
      "sagemaker">>

\* The keys of the usage_collectors dict built in main().
usage_collectors ==
    {"ec2", "ebs", "elasticloadbalancing", "eks", "elasticache", "route53", "cloudfront",
     "sagemaker"}

\* quota_config.aws, in the order of the configuration file: one regional
\* and one global service, each with a statically configured quota.
QuotaConfigAws ==
    << [service |-> "ec2",
        quotas |-> <<[quota_code |-> "L-EC2", quota_name |-> "ec2 instances"]>>],
       [service |-> "route53",
        quotas |-> <<[quota_code |-> "L-R53", quota_name |-> "hosted zones"]>>] >>

ConfiguredServices == {QuotaConfigAws[i].service : i \in 1..Len(QuotaConfigAws)}

WorkerAccounts == {"a1"}

\* What region_provider.get_regions(account_id) can answer.
RegionLists == { << >>, <<"us-west-2">>, <<"us-east-1", "us-west-2">> }

\* What collector.collect_usage can do: raise, or answer a dict (maybe empty).
UsageAnswers ==
    { [raised |-> TRUE, nonempty |-> FALSE],
      [raised |-> FALSE, nonempty |-> FALSE],
      [raised |-> FALSE, nonempty |-> TRUE] }

\* The usage dict of a service: each of its quota codes at usage 50.
UsageDictOf(service) ==
    LET sc == CHOOSE c \in {QuotaConfigAws[i] : i \in 1..Len(QuotaConfigAws)} :
                  c.service = service
    IN [q \in {sc.quotas[i].quota_code : i \in 1..Len(sc.quotas)} |-> 50]

\* What one call of get_service_quota can do: answer the quota, or raise.
ApiErrors ==
    {"TooManyRequestsException", "NoSuchResourceException", "AccessDeniedException",
     "EndpointConnectionError"}
ApiAnswers ==
    {[ok |-> TRUE, error |-> None]} \cup {[ok |-> FALSE, error |-> e] : e \in ApiErrors}

\* The quota_info dict of an API answer, and its 'value'.
ApiQuotaInfo == "d1"
QuotaInfoValue(quota_info) == 200

NoService == [service |-> None, service_region |-> None]
NoFetch ==
    [quota_code |-> None, quota_name |-> None, attempts |-> 0, throttled |-> 0,
     sleeps |-> << >>, outcome |-> "none"]

WorkerInit ==
    /\ w_pc = "idle"
    /\ w_account_id = None
    /\ collect_limit = TRUE
    /\ collect_usage = TRUE
    /\ force_refresh = FALSE
    /\ w_fallback = FALSE
    /\ w_regions = << >>
    /\ w_region = None
    /\ sq_client = None
    /\ w_usage_todo = << >>
    /\ w_limit_todo = << >>
    /\ w_service = NoService
    /\ w_quotas = << >>
    /\ retry_count = 0
    /\ w_fetch = NoFetch
    /\ region_results = << >>
    /\ account_results = << >>

\* The dict appended to region_results for a usage snapshot.
UsageItem(account_id, region, service, ud) ==
    [type |-> "usage_data", account_id |-> account_id, region |-> region,
     service |-> service, usage_data |-> ud]

\* isinstance(item, dict) and item.get('type') == 'usage_data'
IsUsageItem(item) == "type" \in DOMAIN item

\* The reason of a Failed result, from the text of the exception.
\* The classification with the two specific reasons left out.
FailedReason_Generic(error_msg) == "api_error"

FailedReason(error_msg) ==
    IF error_msg = "NoSuchResourceException" THEN "quota_not_found"
    ELSE IF error_msg = "AccessDeniedException" THEN "permission_denied"
    ELSE "api_error"

SuccessResult(service, quota, account_id, service_region, quota_info) ==
    QuotaResult(service, quota.quota_code, quota.quota_name, "success", account_id,
                service_region, None,
                QuotaInfo(QuotaInfoValue(quota_info), account_id, service_region), None)

FailedResult(service, quota, account_id, service_region, error_msg) ==
    QuotaResult(service, quota.quota_code, quota.quota_name, "failed", account_id,
                service_region, FailedReason(error_msg), NoQuotaInfo, error_msg)

Sleep(why, after, ms) == [why |-> why, after |-> after, ms |-> ms]

\* _collect_account_quotas up to the region loop: the regions of the
\* account, or the default region when there is none.
CollectAccountStart(account_id, regions, cl, cu, fr) ==
    /\ w_pc = "idle"
    /\ w_pc' = "regions"
    /\ w_account_id' = account_id
    /\ collect_limit' = cl
    /\ collect_usage' = cu
    /\ force_refresh' = fr
    /\ w_fallback' = (regions = << >>)
    /\ w_regions' = (IF regions = << >> THEN <<DefaultRegion>> ELSE regions)
    /\ w_region' = None
    /\ sq_client' = None
    /\ w_service' = NoService
    /\ w_fetch' = NoFetch
    /\ retry_count' = 0
    /\ region_results' = << >>
    /\ account_results' = << >>
    /\ UNCHANGED <<w_usage_todo, w_limit_todo, w_quotas>>

\* The next turn of `for region in regions`: the start of
\* _collect_account_region_quotas.
RegionNext ==
    /\ w_pc = "regions"
    /\ w_regions # << >>
    /\ w_region' = Head(w_regions)
    /\ w_regions' = Tail(w_regions)
    /\ region_results' = << >>
    /\ sq_client' = (IF collect_limit THEN Head(w_regions) ELSE None)
    /\ w_usage_todo' =
          (IF collect_usage
           THEN SelectSeq(UsageServiceOrder,
                          LAMBDA s : s \in ConfiguredServices /\ s \in usage_collectors)
           ELSE << >>)
    /\ w_pc' = "usage"
    /\ UNCHANGED <<w_account_id, collect_limit, collect_usage, force_refresh, w_fallback,
                   w_limit_todo, w_service, w_quotas, retry_count, w_fetch, account_results>>

\* The end of the region loop: return account_results.
CollectAccountReturn ==
    /\ w_pc = "regions"
    /\ w_regions = << >>
    /\ w_pc' = "returned"
    /\ UNCHANGED <<w_account_id, collect_limit, collect_usage, force_refresh, w_fallback,
                   w_regions, w_region, sq_client, w_usage_todo, w_limit_todo, w_service,
                   w_quotas, retry_count, w_fetch, region_results, account_results>>

\* One turn of the usage loop: a global service is collected in us-east-1,
\* any other service in the region being visited.
CollectUsage(answer) ==
    /\ w_pc = "usage"
    /\ w_usage_todo # << >>
    /\ LET service == Head(w_usage_todo)
           usage_region == IF service \in global_services THEN "us-east-1" ELSE w_region
           metrics_region == usage_region
       IN region_results' =
             (IF ~answer.raised /\ answer.nonempty
              THEN Append(region_results,
                          UsageItem(w_account_id, metrics_region, service, UsageDictOf(service)))
              ELSE region_results)
    /\ w_usage_todo' = Tail(w_usage_todo)
    /\ UNCHANGED <<w_pc, w_account_id, collect_limit, collect_usage, force_refresh, w_fallback,
                   w_regions, w_region, sq_client, w_limit_todo, w_service, w_quotas,
                   retry_count, w_fetch, account_results>>

\* After the usage loop: `if collect_limit and sq_client`.
LimitBegin ==
    /\ w_pc = "usage"
    /\ w_usage_todo = << >>
    /\ w_limit_todo' = (IF collect_limit /\ sq_client # None THEN QuotaConfigAws ELSE << >>)
    /\ w_pc' = "limit"
    /\ UNCHANGED <<w_account_id, collect_limit, collect_usage, force_refresh, w_fallback,
                   w_regions, w_region, sq_client, w_usage_todo, w_service, w_quotas,
                   retry_count, w_fetch, region_results, account_results>>

\* One turn of the limit loop over quota_config.aws: the service_region and
\* the client of the service.
LimitService ==
    /\ w_pc = "limit"
    /\ w_limit_todo # << >>
    /\ LET service == Head(w_limit_todo).service
           service_region == IF service \in global_services THEN "us-east-1" ELSE w_region
       IN /\ w_service' = [service |-> service, service_region |-> service_region]
          /\ sq_client' = (IF service \in global_services /\ w_region # "us-east-1"
                           THEN "us-east-1" ELSE sq_client)
    /\ w_quotas' = Head(w_limit_todo).quotas
    /\ w_limit_todo' = Tail(w_limit_todo)
    /\ w_pc' = "quota"
    /\ UNCHANGED <<w_account_id, collect_limit, collect_usage, force_refresh, w_fallback,
                   w_regions, w_region, w_usage_todo, retry_count, w_fetch, region_results,
                   account_results>>

\* The end of _collect_account_region_quotas: account_results.extend(...).
RegionReturn ==
    /\ w_pc = "limit"
    /\ w_limit_todo = << >>
    /\ account_results' = account_results \o region_results
    /\ w_pc' = "regions"
    /\ UNCHANGED <<w_account_id, collect_limit, collect_usage, force_refresh, w_fallback,
                   w_regions, w_region, sq_client, w_usage_todo, w_limit_todo, w_service,
                   w_quotas, retry_count, w_fetch, region_results>>

\* One turn of `for quota in quotas` up to the retry loop: the durable cache
\* is read unless force refresh is on; a hit yields the Success result, a
\* miss sleeps 0.1 s and enters the retry loop.
QuotaBegin ==
    /\ w_pc = "quota"
    /\ w_quotas # << >>
    /\ LET quota == Head(w_quotas)
           cached_data ==
               IF force_refresh THEN None
               ELSE QlcLookup(qlc_files,
                              GetCacheFilePath(w_account_id, w_service.service_region,
                                               w_service.service),
                              quota.quota_code, now)
           fetch == [quota_code |-> quota.quota_code, quota_name |-> quota.quota_name,
                     attempts |-> 0, throttled |-> 0, sleeps |-> << >>, outcome |-> "none"]
       IN IF cached_data # None
          THEN /\ region_results' =
                     Append(region_results,
                            SuccessResult(w_service.service, quota, w_account_id,
                                          w_service.service_region, cached_data))
               /\ w_fetch' = [fetch EXCEPT !.outcome = "cache_hit"]
               /\ UNCHANGED <<w_pc, retry_count>>
          ELSE /\ w_fetch' = [fetch EXCEPT !.sleeps = <<Sleep("delay", 0, PreFetchDelayMs)>>,
                                          !.outcome = "pending"]
               /\ retry_count' = 0
               /\ w_pc' = "fetch"
               /\ UNCHANGED region_results
    /\ w_quotas' = Tail(w_quotas)
    /\ UNCHANGED <<w_account_id, collect_limit, collect_usage, force_refresh, w_fallback,
                   w_regions, w_region, sq_client, w_usage_todo, w_limit_todo, w_service,
                   account_results>>

\* The end of `for quota in quotas`.
ServiceDone ==
    /\ w_pc = "quota"
    /\ w_quotas = << >>
    /\ w_pc' = "limit"
    /\ UNCHANGED <<w_account_id, collect_limit, collect_usage, force_refresh, w_fallback,
                   w_regions, w_region, sq_client, w_usage_todo, w_limit_todo, w_service,
                   w_quotas, retry_count, w_fetch, region_results, account_results>>

\* The test of the retry loop on an exception, with the attempt ceiling
\* left out.
RetryAgain_NoCeiling(error_msg, rc) ==
    error_msg = "TooManyRequestsException"

\* The test of the retry loop on an exception:
\* 'TooManyRequestsException' in error_msg and retry_count < max_retries - 1
RetryAgain(error_msg, rc) ==
    error_msg = "TooManyRequestsException" /\ rc < max_retries - 1

\* One turn of the retry loop: a call of sq_client.get_service_quota and
\* what follows its answer.  The client itself sleeps 2 s before it
\* re-raises a TooManyRequestsException; the loop then sleeps
\* (2 ** retry_count) * 2 s and calls again while retry_count <
\* max_retries - 1, and gives the exception up to the Failed result
\* otherwise.  An answer is written through to the durable cache.
GetServiceQuota(answer) ==
    /\ w_pc = "fetch"
    /\ LET quota == [quota_code |-> w_fetch.quota_code, quota_name |-> w_fetch.quota_name]
           attempt == w_fetch.attempts + 1
           throttled == ~answer.ok /\ answer.error = "TooManyRequestsException"
           again == ~answer.ok /\ RetryAgain(answer.error, retry_count)
           wait_time == (2 ^ retry_count) * BackoffBaseMs
           client_sleep == IF throttled
                           THEN <<Sleep("client", attempt, ClientThrottleSleepMs)>>
                           ELSE << >>
           loop_sleep == IF again THEN <<Sleep("backoff", attempt, wait_time)>> ELSE << >>
           cache_file == GetCacheFilePath(w_account_id, w_service.service_region,
                                          w_service.service)
       IN /\ w_fetch' = [w_fetch EXCEPT
                            !.attempts = attempt,
                            !.throttled = @ + (IF throttled THEN 1 ELSE 0),
                            !.sleeps = @ \o client_sleep \o loop_sleep,
                            !.outcome = IF answer.ok THEN "success"
                                        ELSE IF again THEN "pending" ELSE "failed"]
          /\ IF answer.ok
             THEN /\ qlc_files' = QlcStore(qlc_files, cache_file, quota.quota_code,
                                           ApiQuotaInfo, now)
                  /\ qlc_written' = DictPut(qlc_written, <<cache_file, quota.quota_code>>, now)
                  /\ region_results' =
                        Append(region_results,
                               SuccessResult(w_service.service, quota, w_account_id,
                                             w_service.service_region, ApiQuotaInfo))
                  /\ w_pc' = "quota"
                  /\ UNCHANGED retry_count
             ELSE IF again
             THEN /\ retry_count' = retry_count + 1
                  /\ UNCHANGED <<w_pc, region_results, qlc_files, qlc_written>>
             ELSE /\ region_results' =
                        Append(region_results,
                               FailedResult(w_service.service, quota, w_account_id,
                                            w_service.service_region, answer.error))
                  /\ w_pc' = "quota"
                  /\ UNCHANGED <<retry_count, qlc_files, qlc_written>>
    /\ UNCHANGED <<qlc_ret, w_account_id, collect_limit, collect_usage, force_refresh,
                   w_fallback, w_regions, w_region, sq_client, w_usage_todo, w_limit_todo,
                   w_service, w_quotas, account_results>>

(***************************************************************************)
(* QuotaScheduler (scheduler/scheduler.py).                                *)
(*                                                                         *)
(* start() creates one thread per loop; a thread is a record of where it   *)
(* stands in its loop, of the ticks its time.sleep still has to wait, and  *)
(* (history) of whether its last callback raised.                          *)
(* The callbacks are opaque: a call returns or raises an Exception.        *)
(***************************************************************************)
MaxStarts == 2
MaxInterval == 2

LoopKinds == {"limit", "usage"}
CallbackOutcomes == {"return", "raise"}

Thread(pc, remaining, failed) == [pc |-> pc, remaining |-> remaining, failed |-> failed]

\* __init__
QuotaSchedulerInit(li, ui) ==
    /\ running = FALSE
    /\ limit_interval = li
    /\ usage_interval = ui
    /\ threads = [k \in LoopKinds |-> << >>]

Interval(k) == IF k = "limit" THEN limit_interval ELSE usage_interval

\* A thread of loop k that has not left its loop.
Alive(k, i) == threads[k][i].pc # "exited"

SetThread(k, i, t) == threads' = [threads EXCEPT ![k][i] = t]

\* start(): nothing when already running; otherwise one new thread per loop.
start ==
    /\ running \/ Len(threads["limit"]) < MaxStarts
    /\ IF running
       THEN UNCHANGED <<running, threads>>
       ELSE /\ running' = TRUE
            /\ threads' = [k \in LoopKinds |-> Append(threads[k], Thread("while", 0, FALSE))]
    /\ UNCHANGED <<limit_interval, usage_interval>>

\* stop(): nothing when not running; otherwise the flag is cleared (the
\* joins that follow wait at most 5 seconds and change nothing).
stop ==
    /\ IF ~running
       THEN UNCHANGED running
       ELSE running' = FALSE
    /\ UNCHANGED <<limit_interval, usage_interval, threads>>

\* `while self._running:` followed by the start of time.sleep(interval).
LoopWhile(k, i) ==
    /\ threads[k][i].pc = "while"
    /\ IF running
       THEN SetThread(k, i, Thread("sleeping", Interval(k), threads[k][i].failed))
       ELSE SetThread(k, i, Thread("exited", 0, FALSE))
    /\ UNCHANGED <<running, limit_interval, usage_interval>>

\* One tick of the clock passes for every sleeping thread.
SleepTick ==
    /\ \E k \in LoopKinds : \E i \in 1..Len(threads[k]) :
            threads[k][i].pc = "sleeping"
    /\ \A k \in LoopKinds : \A i \in 1..Len(threads[k]) :
            threads[k][i].pc = "sleeping" => threads[k][i].remaining > 0
    /\ threads' = [k \in LoopKinds |->
                     [i \in 1..Len(threads[k]) |->
                        IF threads[k][i].pc = "sleeping"
                        THEN [threads[k][i] EXCEPT !.remaining = @ - 1]
                        ELSE threads[k][i]]]
    /\ UNCHANGED <<running, limit_interval, usage_interval>>

\* What the loop does when a callback raised, with the loop left instead
\* of continued.
AfterException_Exit == "exited"

\* What the loop does when a callback raised: the except clause logs and
\* the loop goes on.
AfterException == "while"

\* time.sleep returns; `if not self._running: break`, else the callback is
\* entered.
Wake(k, i) ==
    /\ threads[k][i].pc = "sleeping"
    /\ threads[k][i].remaining = 0
    /\ IF ~running
       THEN SetThread(k, i, Thread("exited", 0, FALSE))
       ELSE SetThread(k, i, Thread("callback", 0, threads[k][i].failed))
    /\ UNCHANGED <<running, limit_interval, usage_interval>>

\* The callback returns or raises.
Callback(k, i, outcome) ==
    /\ threads[k][i].pc = "callback"
    /\ IF outcome = "raise"
       THEN SetThread(k, i, Thread("except", 0, TRUE))
       ELSE SetThread(k, i, Thread("while", 0, FALSE))
    /\ UNCHANGED <<running, limit_interval, usage_interval>>

\* `except Exception as e:` logs the error.
Except(k, i) ==
    /\ threads[k][i].pc = "except"
    /\ SetThread(k, i, Thread(AfterException, 0, TRUE))
    /\ UNCHANGED <<running, limit_interval, usage_interval>>

(***************************************************************************)
(* ActiveRegionDiscoverer (provider/discovery/active_region_discoverer.py).*)
(*                                                                         *)
(* The candidate regions and the credentials of the accounts are inputs    *)
(* read from the CMDB; a probe of a region answers whether the account has *)
(* an instance there.  The cache is one file per account.                  *)
(***************************************************************************)
RegionsCacheTtl == 2

ArdAccounts == {"a1", "a2"}
CandidateRegions == <<"us-east-1", "us-west-2">>
CandidateSet == {CandidateRegions[i] : i \in 1..Len(CandidateRegions)}

\* What one round of probes answers: probe_ec2_usage per account and region.
ProbeAnswers == [ArdAccounts -> [CandidateSet -> BOOLEAN]]

ArdNoCall ==
    [called |-> FALSE, time |-> 0, use_cache |-> FALSE, force_refresh |-> FALSE,
     probed |-> {}, probes |-> 0, result |-> << >>]

\* __init__ with an empty cache directory.
ActiveRegionDiscovererInit ==
    /\ region_candidates = CandidateRegions
    /\ account_credentials = [a \in ArdAccounts |-> TRUE]
    /\ ard_files = << >>
    /\ ard_last = ArdNoCall

\* The expiry test of _load_account_cache with the ttl left out.
ArdExpired_NoTtl(t, cache_time) == t - cache_time > 0

\* The expiry test of _load_account_cache:
\* time.time() - cache_time > self.cache_ttl
ArdExpired(t, cache_time) == t - cache_time > RegionsCacheTtl

\* _load_account_cache: None (hit FALSE) when the file is missing or its
\* entry expired, else the regions of the file.
load_account_cache(account_id) ==
    IF account_id \notin DOMAIN ard_files
    THEN [hit |-> FALSE, regions |-> << >>]
    ELSE IF ArdExpired(now, ard_files[account_id].timestamp)
         THEN [hit |-> FALSE, regions |-> << >>]
         ELSE [hit |-> TRUE, regions |-> ard_files[account_id].regions]

\* _save_account_cache: the file of the account is rewritten.
save_account_cache(files, account_id, regions) ==
    [a \in (DOMAIN files) \cup {account_id} |->
        IF a = account_id
        THEN [timestamp |-> now, account_id |-> account_id, regions |-> regions]
        ELSE files[a]]

RECURSIVE SaveAll(_, _, _)
SaveAll(files, todo, used) ==
    IF todo = {}
    THEN files
    ELSE LET a == CHOOSE x \in todo : TRUE
         IN  SaveAll(save_account_cache(files, a, used[a]), todo \ {a}, used)

\* The probe loop over the candidates of one account: the regions, in the
\* order of the candidates, whose probe answered true.
RECURSIVE UsedRegions(_, _, _)
UsedRegions(candidates, i, answer) ==
    IF i > Len(candidates)
    THEN << >>
    ELSE IF answer[candidates[i]]
         THEN <<candidates[i]>> \o UsedRegions(candidates, i + 1, answer)
         ELSE UsedRegions(candidates, i + 1, answer)

\* discover_ec2_used_regions_from_provider(account_provider, use_cache,
\* force_refresh); answers is what the probes of this call answer.
discover_ec2_used_regions_from_provider(p_use_cache, p_force_refresh, answers) ==
    LET complete == {a \in DOMAIN account_credentials : account_credentials[a]}
        cached(a) == p_use_cache /\ ~p_force_refresh /\ load_account_cache(a).hit
        probed == IF region_candidates = << >>
                  THEN {}
                  ELSE {a \in complete : ~cached(a)}
        used == [a \in probed |-> UsedRegions(region_candidates, 1, answers[a])]
        result == IF region_candidates = << >>
                  THEN << >>
                  ELSE [a \in complete |->
                           IF a \in probed
                           THEN used[a]
                           ELSE load_account_cache(a).regions]
    IN  /\ ard_files' = IF p_use_cache THEN SaveAll(ard_files, probed, used) ELSE ard_files
        /\ ard_last' = [called |-> TRUE, time |-> now, use_cache |-> p_use_cache,
                        force_refresh |-> p_force_refresh, probed |-> probed,
                        probes |-> Cardinality(probed) * Len(region_candidates),
                        result |-> result]
        /\ UNCHANGED <<region_candidates, account_credentials>>

(***************************************************************************)
(* CMDBRegionProvider (provider/discovery/cmdb_provider.py) and the        *)
(* start-up discovery of main.  The provider keeps the region lists in a   *)
(* dict of its own; the discoverer with its per-account files is the one   *)
(* above.                                                                  *)
(***************************************************************************)
RpNoCall ==
    [called |-> FALSE, account_id |-> None, time |-> 0, regions |-> << >>,
     discovered |-> 0, probed |-> FALSE]

\* Before main has constructed the provider.
CMDBRegionProviderInit ==
    /\ rp_pc = "startup"
    /\ ec2_regions_cache = << >>
    /\ rp_discovered = << >>
    /\ rp_last = RpNoCall

\* When the region set that a discovery call returned for the account was
\* discovered: the timestamp of the account's file, which the call has
\* just written or has read; for an account without a file, the call.
DiscoveredAt(files, account_id) ==
    IF account_id \in DOMAIN files THEN files[account_id].timestamp ELSE now

\* dict.get(account_id, [])
RegionsGet(result, account_id) ==
    IF account_id \in DOMAIN result THEN result[account_id] ELSE << >>

\* main: the discovery at start-up and CMDBRegionProvider.__init__, which
\* copies a non-empty active_regions_map into _ec2_regions_cache.
StartupDiscovery(p_force_refresh, answers) ==
    /\ rp_pc = "startup"
    /\ discover_ec2_used_regions_from_provider(TRUE, p_force_refresh, answers)
    /\ ec2_regions_cache' = ard_last'.result
    /\ rp_discovered' = [a \in DOMAIN ard_last'.result |-> DiscoveredAt(ard_files', a)]
    /\ rp_pc' = "running"
    /\ UNCHANGED rp_last

\* get_regions -> _load_ec2_regions: the dict entry when there is one, and
\* else a discovery whose answer for the account is kept in the dict.
get_regions(account_id, answers) ==
    /\ rp_pc = "running"
    /\ IF account_id \in DOMAIN ec2_regions_cache
       THEN /\ rp_last' = [called |-> TRUE, account_id |-> account_id, time |-> now,
                           regions |-> ec2_regions_cache[account_id],
                           discovered |-> rp_discovered[account_id], probed |-> FALSE]
            /\ UNCHANGED <<ec2_regions_cache, rp_discovered, ardVars>>
       ELSE /\ discover_ec2_used_regions_from_provider(TRUE, FALSE, answers)
            /\ ec2_regions_cache' =
                  [a \in DOMAIN ec2_regions_cache \cup {account_id} |->
                      IF a = account_id
                      THEN RegionsGet(ard_last'.result, account_id)
                      ELSE ec2_regions_cache[a]]
            /\ rp_discovered' =
                  [a \in DOMAIN rp_discovered \cup {account_id} |->
                      IF a = account_id
                      THEN DiscoveredAt(ard_files', account_id)
                      ELSE rp_discovered[a]]
            /\ rp_last' = [called |-> TRUE, account_id |-> account_id, time |-> now,
                           regions |-> RegionsGet(ard_last'.result, account_id),
                           discovered |-> DiscoveredAt(ard_files', account_id),
                           probed |-> account_id \in ard_last'.probed]
    /\ UNCHANGED rp_pc

(***************************************************************************)
(* collect_quotas (main.py): one collection cycle over the account list.   *)
(*                                                                         *)
(* The work of one account is computed as a whole, by the operators below, *)
(* from the inputs of the cycle: the region list of each account, the      *)
(* quota codes whose limit fetch fails and the services whose usage        *)
(* collector answers data.  The retry loop inside one fetch is the one of  *)
(* SpecWorker and is not repeated here.                                    *)
(***************************************************************************)
CycleAccounts == {"a1", "a2"}

\* The discovery section of the sagemaker service.
CycleDiscoveryConfig == DiscoveryConfig(<<[name_contains |-> <<KwNotebook, KwUsage>>]>>, "high")

\* What ListServiceQuotas answers for sagemaker when it answers.
CycleCatalog ==
    << [quota_code |-> "L-NB1", quota_name |-> NotebookInstanceUsage],
       [quota_code |-> "L-NB2", quota_name |-> NotebookInstanceCount] >>

\* quota_config.aws of the cycle, in the order of the configuration file:
\* a regional service with two quotas, a service in discovery mode, a
\* global service, and cloudfront.
CycleConfigAws ==
    << [service |-> "ec2",
        quotas |-> <<[quota_code |-> "L-EC2A", quota_name |-> "ec2 on-demand"],
                     [quota_code |-> "L-EC2B", quota_name |-> "ec2 spot"]>>],
       [service |-> "sagemaker", discovery |-> CycleDiscoveryConfig, quotas |-> << >>],
       [service |-> "route53",
        quotas |-> <<[quota_code |-> "L-R53", quota_name |-> "hosted zones"]>>],
       [service |-> "cloudfront",
        quotas |-> <<[quota_code |-> "L-24B04930",
                      quota_name |-> "web distributions"]>>] >>

CycleServices == {CycleConfigAws[i].service : i \in 1..Len(CycleConfigAws)}
QuotasOf(service) ==
    (CHOOSE c \in {CycleConfigAws[i] : i \in 1..Len(CycleConfigAws)} :
        c.service = service).quotas
CodesOfService(service) ==
    {QuotasOf(service)[i].quota_code : i \in 1..Len(QuotasOf(service))}

\* The quota codes discovery finds in the catalog.
RECURSIVE CodesIn(_, _)
CodesIn(quotas, i) ==
    IF i > Len(quotas) THEN {} ELSE {quotas[i].quota_code} \cup CodesIn(quotas, i + 1)
DiscoveredCodes == CodesIn(MatchedQuotas(CycleDiscoveryConfig, CycleCatalog, 1), 1)

\* The quota codes fetched through the Service Quotas API.
ApiCodes == CodesOfService("ec2") \cup CodesOfService("route53") \cup DiscoveredCodes

\* cloudfront_default_limits
cloudfront_default_limits ==
    [c \in {"L-24B04930", "L-7D134442", "L-CF0D4FC5", "L-08884E5C"} |->
        IF c = "L-24B04930" THEN 200
        ELSE IF c = "L-08884E5C" THEN 100
        ELSE 20]

\* The dict a usage collector answers: each quota code of the service at 50.
CycleUsageDictOf(service) == [q \in CodesOfService(service) |-> 50]

\* The error of a limit fetch that fails.
FetchError == "AccessDeniedException"

ServiceRegion(service, region) ==
    IF service \in global_services THEN DefaultRegion ELSE region

\* What a worker carries along: the cache files, the items it returns, and
\* (history) every evaluation of a static quota: whether the cache held a
\* valid entry, whether the remote API was called, whether the cache was
\* written.
\* The credentials of an account: a dict with its two keys, or None.
Credentials(account_id) == [access_key |-> account_id, secret_key |-> account_id]
NoCredentials == [access_key |-> None, secret_key |-> None]

\* CMDBCredentialProvider.get_credentials: the stored keys of the account,
\* None when the store has none or the read fails inside the provider.
get_credentials(account_id) ==
    IF cy_creds[account_id] = "stored" THEN Credentials(account_id) ELSE NoCredentials

\* `try: credentials = get_credentials(account_id) except: credentials =
\* None`, with one failed resolution taking the keys from every account.
ResolveCredentials_AllOrNone(account_id) ==
    IF \E b \in CycleAccounts : cy_creds[b] # "stored"
    THEN NoCredentials
    ELSE get_credentials(account_id)

\* `try: credentials = get_credentials(account_id) except: credentials = None`
ResolveCredentials(account_id) ==
    IF cy_creds[account_id] = "raises"
    THEN NoCredentials
    ELSE get_credentials(account_id)

\* (history) one client or collector call and the credentials it was given.
ClientCall(client, account_id, region, credentials) ==
    [client |-> client, account_id |-> account_id, region |-> region,
     credentials |-> credentials]

NoClient == "no client"

WorkAcc(files, items, fetches) ==
    [files |-> files, items |-> items, fetches |-> fetches, credentials |-> NoCredentials,
     sq_client_region |-> NoClient, clients |-> << >>, discoveries |-> << >>,
     raised |-> FALSE]

\* ServiceQuotasClient(region, keys of the credentials if any): the
\* constructor raises what the construction of the boto3 client raises, and
\* sq_client then keeps the client it had.
NewClient(acc, account_id, region) ==
    [acc EXCEPT !.sq_client_region = IF region \in cy_client_fail THEN @ ELSE region,
                !.clients = Append(@, ClientCall("service_quotas", account_id, region,
                                                 acc.credentials)),
                !.raised = region \in cy_client_fail]

\* `except Exception` around a piece of work: the exception ends there.
Caught(acc) == [acc EXCEPT !.raised = FALSE]

\* SageMakerDiscovery.discover_quotas on the answer of the cycle: the
\* matched quotas, the empty list when the catalog call fails.
DiscoverQuotas(config) ==
    IF cy_catalog.ok THEN MatchedQuotas(config, cy_catalog.quotas, 1) ELSE << >>

\* (history) one discover_quotas call.
Discovery(account_id, service_region, service, value) ==
    [account_id |-> account_id, region |-> service_region, service |-> service,
     ok |-> cy_catalog.ok, value |-> value]

Fetch(account_id, service_region, service, quota_code, valid, called, wrote, status) ==
    [account_id |-> account_id, region |-> service_region, service |-> service,
     quota_code |-> quota_code, valid |-> valid, called |-> called, wrote |-> wrote,
     status |-> status]

\* The usage loop of a region: one usage item per service that is
\* configured, has a collector and answers a non-empty dict.
RECURSIVE RegionUsageItems(_, _, _)
RegionUsageItems(account_id, region, i) ==
    IF i > Len(UsageServiceOrder)
    THEN << >>
    ELSE LET service == UsageServiceOrder[i]
             rest == RegionUsageItems(account_id, region, i + 1)
         IN  IF /\ service \in CycleServices
                /\ service \in usage_collectors
                /\ service \in cy_usage
             THEN <<UsageItem(account_id, ServiceRegion(service, region), service,
                              CycleUsageDictOf(service))>> \o rest
             ELSE rest

\* (history) the collect_usage calls of the usage loop of a region.
RECURSIVE RegionUsageCalls(_, _, _, _)
RegionUsageCalls(credentials, account_id, region, i) ==
    IF i > Len(UsageServiceOrder)
    THEN << >>
    ELSE LET service == UsageServiceOrder[i]
             rest == RegionUsageCalls(credentials, account_id, region, i + 1)
         IN  IF service \in CycleServices /\ service \in usage_collectors
             THEN <<ClientCall(service, account_id, ServiceRegion(service, region),
                               credentials)>> \o rest
             ELSE rest

\* The cloudfront branch: a Success result with the built-in limit for
\* every configured quota that has one, nothing for the others.
RECURSIVE CloudfrontResults(_, _, _, _)
CloudfrontResults(account_id, service_region, quotas, i) ==
    IF i > Len(quotas)
    THEN << >>
    ELSE LET quota == quotas[i]
             rest == CloudfrontResults(account_id, service_region, quotas, i + 1)
         IN  IF quota.quota_code \in DOMAIN cloudfront_default_limits
             THEN <<QuotaResult("cloudfront", quota.quota_code, quota.quota_name,
                                "success", account_id, service_region, None,
                                QuotaInfo(cloudfront_default_limits[quota.quota_code],
                                          account_id, service_region),
                                None)>> \o rest
             ELSE rest

\* One statically configured quota in a worker: cache check, remote call on
\* a miss, write-through on success, Failed result on an exception.
WorkerStaticQuota(acc, account_id, region, service, quota) ==
    LET service_region == ServiceRegion(service, region)
        cache_file == GetCacheFilePath(account_id, service_region, service)
        cached_data == IF cycle_force_refresh
                       THEN None
                       ELSE QlcLookup(acc.files, cache_file, quota.quota_code, now)
        fetch(called, wrote, status) ==
            Fetch(account_id, service_region, service, quota.quota_code,
                  cached_data # None, called, wrote, status)
    IN  IF cached_data # None
        THEN [acc EXCEPT
                 !.items = Append(@, SuccessResult(service, quota, account_id,
                                                   service_region, cached_data)),
                 !.fetches = Append(@, fetch(FALSE, FALSE, "success"))]
        ELSE IF quota.quota_code \in cy_fail
        THEN [acc EXCEPT
                 !.items = Append(@, FailedResult(service, quota, account_id,
                                                  service_region, FetchError)),
                 !.fetches = Append(@, fetch(TRUE, FALSE, "failed"))]
        ELSE [acc EXCEPT
                 !.files = QlcStore(@, cache_file, quota.quota_code, ApiQuotaInfo, now),
                 !.items = Append(@, SuccessResult(service, quota, account_id,
                                                   service_region, ApiQuotaInfo)),
                 !.fetches = Append(@, fetch(TRUE, TRUE, "success"))]

\* One discovered quota, in a worker and in the sequential branch alike:
\* the remote call, a Success result or, on an exception, a Failed one.
\* The limit cache is not consulted; `valid` records what it held.
DiscoveredQuota(files, account_id, service_region, service, quota_item) ==
    LET cache_file == GetCacheFilePath(account_id, service_region, service)
        valid == /\ ~cycle_force_refresh
                 /\ QlcLookup(files, cache_file, quota_item.quota_code, now) # None
        failed == quota_item.quota_code \in cy_fail
    IN  [result |-> IF failed
                    THEN FailedResult(service, quota_item, account_id, service_region,
                                      FetchError)
                    ELSE SuccessResult(service, quota_item, account_id, service_region,
                                       ApiQuotaInfo),
         fetch |-> Fetch(account_id, service_region, service, quota_item.quota_code,
                         valid, TRUE, FALSE, IF failed THEN "failed" ELSE "success")]

RECURSIVE WorkerDiscoveredLoop(_, _, _, _, _, _)
WorkerDiscoveredLoop(acc, account_id, service_region, service, discovered_quotas, i) ==
    IF i > Len(discovered_quotas)
    THEN acc
    ELSE LET d == DiscoveredQuota(acc.files, account_id, service_region, service,
                                  discovered_quotas[i])
         IN  WorkerDiscoveredLoop([acc EXCEPT !.items = Append(@, d.result),
                                              !.fetches = Append(@, d.fetch)],
                                  account_id, service_region, service, discovered_quotas,
                                  i + 1)

\* The discovery branch of a worker, with a failed catalog call taking the
\* results of the worker so far with it.
WorkerDiscovery_Aborts(acc, account_id, region, service, config) ==
    LET service_region == ServiceRegion(service, region)
        with_client ==
            IF service \in regional_services /\ service_region # acc.sq_client_region
            THEN NewClient(acc, account_id, service_region)
            ELSE acc
        discovered_quotas == DiscoverQuotas(config)
        logged == [with_client EXCEPT
                      !.discoveries = Append(@, Discovery(account_id, service_region,
                                                          service, discovered_quotas)),
                      !.items = IF cy_catalog.ok THEN @ ELSE << >>]
    IN  IF with_client.raised
        THEN Caught(with_client)
        ELSE WorkerDiscoveredLoop(logged, account_id, service_region, service,
                                  discovered_quotas, 1)

\* The discovery branch of a worker: the client of the service's region,
\* discover_quotas, and one fetch per discovered quota.
WorkerDiscovery(acc, account_id, region, service, config) ==
    LET service_region == ServiceRegion(service, region)
        with_client ==
            IF service \in regional_services /\ service_region # acc.sq_client_region
            THEN NewClient(acc, account_id, service_region)
            ELSE acc
        discovered_quotas == DiscoverQuotas(config)
        logged == [with_client EXCEPT
                      !.discoveries = Append(@, Discovery(account_id, service_region,
                                                          service, discovered_quotas))]
    IN  IF with_client.raised
        THEN Caught(with_client)
        ELSE WorkerDiscoveredLoop(logged, account_id, service_region, service,
                                  discovered_quotas, 1)

RECURSIVE WorkerQuotaLoop(_, _, _, _, _, _)
WorkerQuotaLoop(acc, account_id, region, service, quotas, i) ==
    IF i > Len(quotas)
    THEN acc
    ELSE WorkerQuotaLoop(WorkerStaticQuota(acc, account_id, region, service, quotas[i]),
                         account_id, region, service, quotas, i + 1)

\* The limit loop of a region in a worker, over the services in the order
\* of the configuration.
RECURSIVE WorkerServiceLoop(_, _, _, _)
WorkerServiceLoop(acc, account_id, region, i) ==
    IF i > Len(CycleConfigAws) \/ acc.raised
    THEN acc
    ELSE LET service_config == CycleConfigAws[i]
             service == service_config.service
             quotas == service_config.quotas
             client == IF service \in global_services /\ region # DefaultRegion
                       THEN NewClient(acc, account_id, DefaultRegion)
                       ELSE acc
             next == IF client.raised
                     THEN client
                     ELSE IF /\ "discovery" \in DOMAIN service_config
                             /\ service_config.discovery.enabled
                     THEN WorkerDiscovery(client, account_id, region, service,
                                          service_config.discovery)
                     ELSE IF service = "cloudfront"
                     THEN [client EXCEPT !.items =
                              @ \o CloudfrontResults(account_id,
                                                     ServiceRegion(service, region),
                                                     quotas, 1)]
                     ELSE WorkerQuotaLoop(client, account_id, region, service, quotas, 1)
         IN  WorkerServiceLoop(next, account_id, region, i + 1)

\* _collect_account_region_quotas: the usage items, then the limit results.
\* An exception of a client construction leaves the function (raised).
collect_account_region_quotas(acc, account_id, region) ==
    LET with_client ==
            IF cycle_collect_limit THEN NewClient(acc, account_id, region) ELSE acc
        with_usage ==
            IF cycle_collect_usage
            THEN [with_client EXCEPT
                     !.items = @ \o RegionUsageItems(account_id, region, 1),
                     !.clients = @ \o RegionUsageCalls(acc.credentials, account_id,
                                                       region, 1)]
            ELSE with_client
    IN  IF with_client.raised
        THEN with_client
        ELSE IF cycle_collect_limit
        THEN WorkerServiceLoop(with_usage, account_id, region, 1)
        ELSE with_usage

\* `try: account_results.extend(_collect_account_region_quotas(...)) except
\* Exception: continue`: a call that raised hands over none of its items.
RegionOutcome(acc, region_acc) ==
    IF region_acc.raised
    THEN Caught([region_acc EXCEPT !.items = acc.items])
    ELSE region_acc

\* The region list an account is collected in: its active regions, or the
\* default region alone when it has none.
RegionsOrDefault(regions) == IF regions = << >> THEN <<DefaultRegion>> ELSE regions

RECURSIVE WorkerRegionLoop(_, _, _, _)
WorkerRegionLoop(acc, account_id, regions, i) ==
    IF i > Len(regions)
    THEN acc
    ELSE WorkerRegionLoop(
             RegionOutcome(acc, collect_account_region_quotas(acc, account_id, regions[i])),
             account_id, regions, i + 1)

\* _collect_account_quotas
collect_account_quotas(files, account_id) ==
    WorkerRegionLoop([WorkAcc(files, << >>, << >>) EXCEPT
                         !.credentials = ResolveCredentials(account_id)],
                     account_id, RegionsOrDefault(cy_regions[account_id]), 1)

(***************************************************************************)
(* The aggregator calls of a cycle, on the state of the QuotaCollector as  *)
(* a value.                                                                *)
(***************************************************************************)
CollState ==
    [results |-> results, usage_data |-> usage_data, g |-> Gauges,
     errors |-> scrape_errors_total, skipped |-> scrape_skipped_total]

\* QuotaCollector.add_result
AddResultTo(c, result) ==
    [results |-> Append(c.results, result),
     usage_data |-> c.usage_data,
     g |-> IF is_success(result)
           THEN GaugesAfterSuccess(c.g, c.usage_data, result)
           ELSE c.g,
     errors |-> IF is_success(result) \/ is_skipped(result)
                THEN c.errors
                ELSE Inc(c.errors,
                         <<result.service, result.quota_code, ErrorType(result.error)>>),
     skipped |-> IF is_skipped(result)
                 THEN Inc(c.skipped,
                          <<result.service,
                            IF result.reason = None THEN "unknown" ELSE result.reason>>)
                 ELSE c.skipped]

\* QuotaCollector.set_usage_data
SetUsageDataTo(c, account_id, region, service, ud) ==
    [c EXCEPT !.usage_data = DictPut(c.usage_data, <<account_id, region, service>>, ud),
              !.g = UsageSkippedPass(
                        UsageSuccessPass(c.g, c.results, 1, account_id, region, service, ud),
                        c.results, 1, account_id, region, service, ud)]

RECURSIVE CollectAllTo(_, _, _)
\* QuotaCollector.collect_all, with the loop left after the first result.
CollectAllTo_First(c, rs, i) ==
    IF i > Len(rs) THEN c ELSE AddResultTo(c, rs[i])

\* QuotaCollector.collect_all
CollectAllTo(c, rs, i) ==
    IF i > Len(rs) THEN c ELSE CollectAllTo(AddResultTo(c, rs[i]), rs, i + 1)

\* The loop that applies the buffered usage items.
RECURSIVE ApplyUsageItems(_, _, _)
ApplyUsageItems(c, items, i) ==
    IF i > Len(items)
    THEN c
    ELSE ApplyUsageItems(SetUsageDataTo(c, items[i].account_id, items[i].region,
                                        items[i].service, items[i].usage_data),
                         items, i + 1)

\* The cloudfront pass at the end of a cycle: for every account of the
\* list, the stored cloudfront snapshot is applied once more.
RECURSIVE ReapplyCloudfront(_, _, _)
ReapplyCloudfront(c, accs, i) ==
    IF i > Len(accs)
    THEN c
    ELSE LET usage_key == <<accs[i], DefaultRegion, "cloudfront">>
         IN  ReapplyCloudfront(
                 IF usage_key \in DOMAIN c.usage_data /\ DOMAIN c.usage_data[usage_key] # {}
                 THEN SetUsageDataTo(c, accs[i], DefaultRegion, "cloudfront",
                                     c.usage_data[usage_key])
                 ELSE c,
                 accs, i + 1)

SetCollState(c, op) ==
    /\ results' = c.results
    /\ usage_data' = c.usage_data
    /\ SetGauges(c.g)
    /\ scrape_errors_total' = c.errors
    /\ scrape_skipped_total' = c.skipped
    /\ coll_last' = [op |-> op, key |-> <<None, None, None>>]

(***************************************************************************)
(* The sequential branch of collect_quotas: the same loops written out a   *)
(* second time in the body of collect_quotas.  Usage is applied to the     *)
(* aggregator at once, a static quota is fetched without the cache, and a  *)
(* Failed result carries the iterated region.                              *)
(***************************************************************************)
SeqAcc(coll, rs, fetches) ==
    [coll |-> coll, all_results |-> rs, fetches |-> fetches, credentials |-> NoCredentials,
     sq_client_region |-> NoClient, clients |-> << >>, discoveries |-> << >>,
     raised |-> FALSE]

RECURSIVE SequentialUsageLoop(_, _, _, _)
SequentialUsageLoop(c, account_id, region, i) ==
    IF i > Len(UsageServiceOrder)
    THEN c
    ELSE LET service == UsageServiceOrder[i]
         IN  SequentialUsageLoop(
                 IF /\ service \in CycleServices
                    /\ service \in usage_collectors
                    /\ service \in cy_usage
                 THEN SetUsageDataTo(c, account_id, ServiceRegion(service, region), service,
                                     CycleUsageDictOf(service))
                 ELSE c,
                 account_id, region, i + 1)

\* One statically configured quota in the sequential branch.
SequentialStaticQuota(acc, account_id, region, service, quota) ==
    LET service_region == ServiceRegion(service, region)
        cache_file == GetCacheFilePath(account_id, service_region, service)
        valid == /\ ~cycle_force_refresh
                 /\ QlcLookup(qlc_files, cache_file, quota.quota_code, now) # None
        fetch(status) ==
            Fetch(account_id, service_region, service, quota.quota_code, valid, TRUE, FALSE,
                  status)
    IN  IF quota.quota_code \in cy_fail
        THEN [acc EXCEPT
                 !.all_results = Append(@, FailedResult(service, quota, account_id, region,
                                                        FetchError)),
                 !.fetches = Append(@, fetch("failed"))]
        ELSE [acc EXCEPT
                 !.all_results = Append(@, SuccessResult(service, quota, account_id,
                                                         service_region, ApiQuotaInfo)),
                 !.fetches = Append(@, fetch("success"))]

RECURSIVE SequentialQuotaLoop(_, _, _, _, _, _)
SequentialQuotaLoop(acc, account_id, region, service, quotas, i) ==
    IF i > Len(quotas)
    THEN acc
    ELSE SequentialQuotaLoop(
             SequentialStaticQuota(acc, account_id, region, service, quotas[i]),
             account_id, region, service, quotas, i + 1)

RECURSIVE SequentialDiscoveredLoop(_, _, _, _, _, _)
SequentialDiscoveredLoop(acc, account_id, service_region, service, discovered_quotas, i) ==
    IF i > Len(discovered_quotas)
    THEN acc
    ELSE LET d == DiscoveredQuota(qlc_files, account_id, service_region, service,
                                  discovered_quotas[i])
         IN  SequentialDiscoveredLoop([acc EXCEPT !.all_results = Append(@, d.result),
                                                  !.fetches = Append(@, d.fetch)],
                                      account_id, service_region, service,
                                      discovered_quotas, i + 1)

\* The discovery branch of the sequential branch.
SequentialDiscovery(acc, account_id, region, service, config) ==
    LET service_region == ServiceRegion(service, region)
        with_client ==
            IF service \in regional_services /\ service_region # acc.sq_client_region
            THEN NewClient(acc, account_id, service_region)
            ELSE acc
        discovered_quotas == DiscoverQuotas(config)
        logged == [with_client EXCEPT
                      !.discoveries = Append(@, Discovery(account_id, service_region,
                                                          service, discovered_quotas))]
    IN  IF with_client.raised
        THEN Caught(with_client)
        ELSE SequentialDiscoveredLoop(logged, account_id, service_region, service,
                                      discovered_quotas, 1)

RECURSIVE SequentialServiceLoop(_, _, _, _)
SequentialServiceLoop(acc, account_id, region, i) ==
    IF i > Len(CycleConfigAws) \/ acc.raised
    THEN acc
    ELSE LET service_config == CycleConfigAws[i]
             service == service_config.service
             quotas == service_config.quotas
             client == IF service \in global_services /\ region # DefaultRegion
                       THEN NewClient(acc, account_id, DefaultRegion)
                       ELSE acc
             next == IF client.raised
                     THEN client
                     ELSE IF /\ "discovery" \in DOMAIN service_config
                             /\ service_config.discovery.enabled
                     THEN SequentialDiscovery(client, account_id, region, service,
                                              service_config.discovery)
                     ELSE IF service = "cloudfront"
                     THEN [client EXCEPT !.all_results =
                              @ \o CloudfrontResults(account_id,
                                                     ServiceRegion(service, region),
                                                     quotas, 1)]
                     ELSE SequentialQuotaLoop(client, account_id, region, service, quotas,
                                              1)
         IN  SequentialServiceLoop(next, account_id, region, i + 1)

RECURSIVE SequentialRegionLoop(_, _, _, _)
SequentialRegionLoop(acc, account_id, regions, i) ==
    IF i > Len(regions)
    THEN acc
    ELSE LET with_client ==
                 IF cycle_collect_limit THEN NewClient(acc, account_id, regions[i]) ELSE acc
             with_usage ==
                 IF cycle_collect_usage
                 THEN [with_client EXCEPT
                          !.coll = SequentialUsageLoop(@, account_id, regions[i], 1),
                          !.clients = @ \o RegionUsageCalls(acc.credentials, account_id,
                                                            regions[i], 1)]
                 ELSE with_client
             with_limit ==
                 IF with_client.raised
                 THEN with_client
                 ELSE IF cycle_collect_limit
                 THEN SequentialServiceLoop(with_usage, account_id, regions[i], 1)
                 ELSE with_usage
         IN  SequentialRegionLoop(Caught(with_limit), account_id, regions, i + 1)

(***************************************************************************)
(* The steps of collect_quotas.                                            *)
(***************************************************************************)
CycleInit ==
    /\ cy_pc = "idle"
    /\ accounts = <<"a1">>
    /\ use_concurrent = TRUE
    /\ cy_regions = [a \in CycleAccounts |-> << >>]
    /\ cy_fail = {}
    /\ cy_usage = {}
    /\ cycle_collect_limit = TRUE
    /\ cycle_collect_usage = TRUE
    /\ cycle_force_refresh = FALSE
    /\ workers = << >>
    /\ all_results = << >>
    /\ usage_data_list = << >>
    /\ cy_fetches = << >>

AccountSet == {accounts[i] : i \in 1..Len(accounts)}

Worker(state, items) == [state |-> state, items |-> items]

\* The history of cache writes after the fetches of a worker.
RECURSIVE WrittenAfter(_, _, _)
WrittenAfter(written, fetches, i) ==
    IF i > Len(fetches)
    THEN written
    ELSE WrittenAfter(
             IF fetches[i].wrote
             THEN DictPut(written,
                          <<GetCacheFilePath(fetches[i].account_id, fetches[i].region,
                                             fetches[i].service),
                            fetches[i].quota_code>>,
                          now)
             ELSE written,
             fetches, i + 1)

\* The entry of collect_quotas: the concurrent branch is taken when
\* USE_CONCURRENT_COLLECTION is true and there is more than one account,
\* and then every account is submitted to the pool.
CycleStart ==
    /\ cy_pc = "idle"
    /\ IF use_concurrent /\ Len(accounts) > 1
       THEN /\ cy_pc' = "pool"
            /\ workers' = [a \in AccountSet |-> Worker("queued", << >>)]
       ELSE /\ cy_pc' = "sequential"
            /\ UNCHANGED workers
    /\ UNCHANGED <<accounts, use_concurrent, cy_regions, cy_fail, cy_usage,
                   cycle_collect_limit, cycle_collect_usage, cycle_force_refresh,
                   all_results, usage_data_list, cy_fetches>>
    /\ UNCHANGED <<qlcVars, collVars>>

\* collect_account_wrapper in a pool thread: the whole account.
WorkerRun(a) ==
    /\ cy_pc = "pool"
    /\ workers[a].state = "queued"
    /\ LET acc == collect_account_quotas(qlc_files, a)
       IN  /\ workers' = [workers EXCEPT ![a] = Worker("finished", acc.items)]
           /\ qlc_files' = acc.files
           /\ qlc_written' = WrittenAfter(qlc_written, acc.fetches, 1)
           /\ cy_fetches' = cy_fetches \o acc.fetches
           /\ cy_clients' = cy_clients \o acc.clients
           /\ cy_discoveries' = cy_discoveries \o acc.discoveries
    /\ UNCHANGED <<cy_pc, accounts, use_concurrent, cy_regions, cy_fail, cy_usage,
                   cycle_collect_limit, cycle_collect_usage, cycle_force_refresh,
                   all_results, usage_data_list>>
    /\ UNCHANGED <<qlc_ret, collVars>>

\* One turn of the as_completed loop: the items of a finished worker are
\* split into usage items and limit results.
Merge(a) ==
    /\ cy_pc = "pool"
    /\ workers[a].state = "finished"
    /\ usage_data_list' = usage_data_list \o SelectSeq(workers[a].items, IsUsageItem)
    /\ all_results' = all_results \o
                      SelectSeq(workers[a].items, LAMBDA item : ~IsUsageItem(item))
    /\ workers' = [workers EXCEPT ![a] = Worker("merged", << >>)]
    /\ UNCHANGED <<cy_pc, accounts, use_concurrent, cy_regions, cy_fail, cy_usage,
                   cycle_collect_limit, cycle_collect_usage, cycle_force_refresh,
                   cy_fetches>>
    /\ UNCHANGED <<qlcVars, collVars>>

\* The as_completed loop has ended, with the loop ending at the first
\* future instead of the last.
PoolDrained_First == \E a \in AccountSet : workers[a].state = "merged"

\* The as_completed loop has ended: every future was yielded.
PoolDrained == \A a \in AccountSet : workers[a].state = "merged"

\* After the as_completed loop: the buffered usage items are applied.
ApplyUsage ==
    /\ cy_pc = "pool"
    /\ PoolDrained
    /\ IF cycle_collect_usage /\ usage_data_list # << >>
       THEN SetCollState(ApplyUsageItems(CollState, usage_data_list, 1), "set_usage_data")
       ELSE UNCHANGED collVars
    /\ cy_pc' = "collect_all"
    /\ UNCHANGED <<accounts, use_concurrent, cy_regions, cy_fail, cy_usage,
                   cycle_collect_limit, cycle_collect_usage, cycle_force_refresh,
                   workers, all_results, usage_data_list, cy_fetches>>
    /\ UNCHANGED qlcVars

\* Where the sequential branch stands after an empty for loop: `if not
\* regions:` reads a local the loop never assigned, and the UnboundLocalError
\* leaves collect_quotas.
AfterEmptyLoop == "raised"

\* The sequential branch: the for loop over the accounts only assigns
\* regions, and the code after it runs once, with the account_id and the
\* regions the loop ended on.
SequentialRun ==
    /\ cy_pc = "sequential"
    /\ IF accounts = << >>
       THEN /\ cy_pc' = AfterEmptyLoop
            /\ UNCHANGED <<collVars, all_results, cy_fetches, cy_clients, cy_discoveries>>
       ELSE /\ LET account_id == accounts[Len(accounts)]
                   regions == RegionsOrDefault(cy_regions[account_id])
                   acc == SequentialRegionLoop(
                              [SeqAcc(CollState, all_results, << >>) EXCEPT
                                  !.credentials = ResolveCredentials(account_id)],
                              account_id, regions, 1)
               IN  /\ IF acc.coll = CollState
                      THEN UNCHANGED collVars
                      ELSE SetCollState(acc.coll, "set_usage_data")
                   /\ all_results' = acc.all_results
                   /\ cy_fetches' = cy_fetches \o acc.fetches
                   /\ cy_clients' = cy_clients \o acc.clients
                   /\ cy_discoveries' = cy_discoveries \o acc.discoveries
            /\ cy_pc' = "collect_all"
    /\ UNCHANGED <<accounts, use_concurrent, cy_regions, cy_fail, cy_usage,
                   cycle_collect_limit, cycle_collect_usage, cycle_force_refresh,
                   workers, usage_data_list>>
    /\ UNCHANGED qlcVars

\* `if all_results: quota_collector.collect_all(all_results)`
CollectAll ==
    /\ cy_pc = "collect_all"
    /\ IF all_results # << >>
       THEN SetCollState(CollectAllTo(CollState, all_results, 1), "add_result")
       ELSE UNCHANGED collVars
    /\ cy_pc' = "reapply"
    /\ UNCHANGED <<accounts, use_concurrent, cy_regions, cy_fail, cy_usage,
                   cycle_collect_limit, cycle_collect_usage, cycle_force_refresh,
                   workers, all_results, usage_data_list, cy_fetches>>
    /\ UNCHANGED qlcVars

\* The cloudfront pass and get_summary.
Reapply ==
    /\ cy_pc = "reapply"
    /\ IF /\ cycle_collect_usage
          /\ "cloudfront" \in CycleServices
          /\ "cloudfront" \in usage_collectors
          /\ ReapplyCloudfront(CollState, accounts, 1) # CollState
       THEN SetCollState(ReapplyCloudfront(CollState, accounts, 1), "set_usage_data")
       ELSE UNCHANGED collVars
    /\ cy_pc' = "done"
    /\ UNCHANGED <<accounts, use_concurrent, cy_regions, cy_fail, cy_usage,
                   cycle_collect_limit, cycle_collect_usage, cycle_force_refresh,
                   workers, all_results, usage_data_list, cy_fetches>>
    /\ UNCHANGED qlcVars

\* The aggregator before any call.
EmptyColl ==
    [results |-> << >>, usage_data |-> << >>,
     g |-> [limit |-> << >>, usage |-> << >>, percent |-> << >>],
     errors |-> << >>, skipped |-> << >>]

\* No cycle has begun.
NoCycleStart == [coll |-> EmptyColl, files |-> << >>]

(***************************************************************************)
(* SageMakerClient.get_training_job_count (api/aws/sagemaker.py): the loop *)
(* over the pages of list_training_jobs.  The remote side decides the size *)
(* of each page, how long it takes, whether another page follows and       *)
(* whether the call raises.                                                *)
(***************************************************************************)
MaxPageJobs == 1          \* a page holds 0..MaxPageJobs job summaries
MaxPageSeconds == 1       \* a page takes 0..MaxPageSeconds seconds
MaxTimeoutSeconds == 2    \* timeout_seconds is 1..MaxTimeoutSeconds
LongPagesCeiling == 52    \* the largest max_pages of the model

NoProgressLimit == 50     \* `if no_progress_pages >= 50`
ManyPages == 200          \* `if page_count > 200 and count < 10`
FewJobs == 10

\* The values of max_pages the loop is run with.
MaxPagesChoices == {1, 2, LongPagesCeiling}

TrainingJobInit ==
    /\ tj_pc = "idle"
    /\ tj_max_pages = 1
    /\ tj_timeout_seconds = 1
    /\ page_count = 0
    /\ tj_count = 0
    /\ tj_elapsed = 0
    /\ no_progress_pages = 0
    /\ tj_ret = None
    /\ tj_consumed = 0

\* The checks after a page, with the page ceiling left out.
AfterPage_NoCeiling(pages, count, elapsed, empty_pages, max_pages, timeout_seconds) ==
    IF elapsed > timeout_seconds THEN "timeout"
    ELSE IF empty_pages >= NoProgressLimit THEN "no_progress"
    ELSE IF pages > ManyPages /\ count < FewJobs THEN "few_jobs"
    ELSE "next"

\* The checks after a page, in the order of the loop body: which break is
\* taken, or "next" when the loop goes on to the next page.
AfterPage(pages, count, elapsed, empty_pages, max_pages, timeout_seconds) ==
    IF elapsed > timeout_seconds THEN "timeout"
    ELSE IF pages >= max_pages THEN "max_pages"
    ELSE IF empty_pages >= NoProgressLimit THEN "no_progress"
    ELSE IF pages > ManyPages /\ count < FewJobs THEN "few_jobs"
    ELSE "next"

\* The call: the locals before the loop.
get_training_job_count(max_pages, timeout_seconds) ==
    /\ tj_pc = "idle"
    /\ tj_pc' = "paging"
    /\ tj_max_pages' = max_pages
    /\ tj_timeout_seconds' = timeout_seconds
    /\ UNCHANGED <<page_count, tj_count, tj_elapsed, no_progress_pages, tj_ret,
                   tj_consumed>>

\* One turn of the loop: the paginator gives a page of page_jobs summaries
\* after `seconds` more seconds; a break returns count.
Page(page_jobs, seconds) ==
    /\ tj_pc = "paging"
    /\ LET empty_pages == IF page_jobs = 0 THEN no_progress_pages + 1 ELSE 0
           outcome == AfterPage(page_count + 1, tj_count + page_jobs,
                                tj_elapsed + seconds, empty_pages, tj_max_pages,
                                tj_timeout_seconds)
       IN  /\ page_count' = page_count + 1
           /\ tj_count' = tj_count + page_jobs
           /\ tj_elapsed' = tj_elapsed + seconds
           /\ tj_consumed' = tj_consumed + page_jobs
           /\ no_progress_pages' =
                  IF outcome \in {"timeout", "max_pages"} THEN no_progress_pages
                  ELSE empty_pages
           /\ IF outcome = "next"
              THEN UNCHANGED <<tj_pc, tj_ret>>
              ELSE tj_pc' = "returned" /\ tj_ret' = tj_count + page_jobs
    /\ UNCHANGED <<tj_max_pages, tj_timeout_seconds>>

\* The paginator has no further page: the loop ends and count is returned.
LastPageSeen ==
    /\ tj_pc = "paging"
    /\ tj_pc' = "returned"
    /\ tj_ret' = tj_count
    /\ UNCHANGED <<tj_max_pages, tj_timeout_seconds, page_count, tj_count, tj_elapsed,
                   no_progress_pages, tj_consumed>>

\* The paginator raises: the exception is logged and raised again.
PageRaises ==
    /\ tj_pc = "paging"
    /\ tj_pc' = "raised"
    /\ UNCHANGED <<tj_max_pages, tj_timeout_seconds, page_count, tj_count, tj_elapsed,
                   no_progress_pages, tj_ret, tj_consumed>>

(***************************************************************************)
(* The entry points of a collection cycle (main.py): collect_limit and     *)
(* collect_usage, which the two scheduler threads call, and the manual     *)
(* trigger, which runs in the thread of its HTTP request.  Each calls      *)
(* collect_quotas on the one QuotaCollector of the process; a cycle first  *)
(* collects and then makes its aggregator calls one after the other.       *)
(***************************************************************************)
MaxRuns == 1

EntryPoints == {"collect_limit", "collect_usage", "trigger_sagemaker_limit"}

AddCall(result) == [op |-> "add_result", result |-> result]
UsageCall(account_id, region, service, ud) ==
    [op |-> "set_usage_data", account_id |-> account_id, region |-> region,
     service |-> service, ud |-> ud]

\* What a limit cycle hands to collect_all: a Success result per quota.
LimitCycleCalls ==
    {<<AddCall(QuotaResult("ec2", "q1", "n1", "success", "a1", DefaultRegion, None,
                           QuotaInfo(l, "a1", DefaultRegion), None)),
       AddCall(QuotaResult("ec2", "q2", "n1", "success", "a1", DefaultRegion, None,
                           QuotaInfo(l, "a1", DefaultRegion), None))>> :
        l \in LimitValues}

\* What a usage cycle applies from usage_data_list: a snapshot per account.
UsageCycleCalls ==
    {<<UsageCall("a1", DefaultRegion, "ec2", [q1 |-> u, q2 |-> u]),
       UsageCall("a2", DefaultRegion, "ec2", [q1 |-> u])>> :
        u \in UsageValues}

\* The aggregator calls of a cycle of the entry point.
CallsOf(entry) ==
    IF entry = "collect_usage" THEN UsageCycleCalls ELSE LimitCycleCalls

EntryInit ==
    /\ entry_pc = [e \in EntryPoints |-> "idle"]
    /\ entry_todo = [e \in EntryPoints |-> << >>]
    /\ entry_runs = [e \in EntryPoints |-> 0]
    /\ write_log = << >>

\* Whether a call of the entry point may enter collect_quotas: the entry
\* points share no lock, so it always may.
MayEnter(entry) == TRUE

\* Variant of MayEnter: one lock around collect_quotas.
MayEnter_Locked(entry) ==
    \A other \in EntryPoints \ {entry} : entry_pc[other] = "idle"

\* The entry point is called and enters collect_quotas.
Enter(entry) ==
    /\ entry_pc[entry] = "idle"
    /\ entry_runs[entry] < MaxRuns
    /\ MayEnter(entry)
    /\ entry_pc' = [entry_pc EXCEPT ![entry] = "collecting"]
    /\ entry_runs' = [entry_runs EXCEPT ![entry] = @ + 1]
    /\ UNCHANGED <<entry_todo, write_log, collVars>>

\* The collection of the cycle ends with the calls it is going to make.
Collected(entry, calls) ==
    /\ entry_pc[entry] = "collecting"
    /\ entry_pc' = [entry_pc EXCEPT ![entry] = "writing"]
    /\ entry_todo' = [entry_todo EXCEPT ![entry] = calls]
    /\ UNCHANGED <<entry_runs, write_log, collVars>>

\* The next aggregator call of the cycle: add_result inside collect_all, or
\* set_usage_data.
AggregatorCall(entry) ==
    /\ entry_pc[entry] = "writing"
    /\ entry_todo[entry] # << >>
    /\ LET call == Head(entry_todo[entry])
       IN  IF call.op = "add_result"
           THEN add_result(call.result)
           ELSE set_usage_data(call.account_id, call.region, call.service, call.ud)
    /\ entry_todo' = [entry_todo EXCEPT ![entry] = Tail(@)]
    /\ write_log' = Append(write_log, <<entry, entry_runs[entry]>>)
    /\ UNCHANGED <<entry_pc, entry_runs>>

\* collect_quotas returns.
Return(entry) ==
    /\ entry_pc[entry] = "writing"
    /\ entry_todo[entry] = << >>
    /\ entry_pc' = [entry_pc EXCEPT ![entry] = "idle"]
    /\ UNCHANGED <<entry_todo, entry_runs, write_log, collVars>>

LaterInit == TrainingJobInit /\ EntryInit

MoreInit ==
    /\ cy_start = NoCycleStart
    /\ LaterInit
    /\ CMDBRegionProviderInit
    /\ cy_catalog = [ok |-> TRUE, quotas |-> << >>]
    /\ cy_creds = [a \in CycleAccounts |-> "stored"]
    /\ cy_client_fail = {}
    /\ cy_clients = << >>
    /\ cy_discoveries = << >>

\* The state of the components added after the worker, as constructed.
ExtInit ==
    /\ QuotaSchedulerInit(MaxInterval, 1)
    /\ ActiveRegionDiscovererInit
    /\ CycleInit
    /\ MoreInit

(***************************************************************************)
(* Specifications.                                                         *)
(***************************************************************************)
InitMemCache ==
    /\ now = 0
    /\ MemInit
    /\ QlcInit
    /\ CollInit
    /\ DiscInit
    /\ WorkerInit
    /\ ExtInit

NextMemCache ==
    \/ Tick /\ UNCHANGED <<memVars, qlcVars, collVars, discVars, workerVars, extVars>>
    \/ \E k \in Keys : MemGet(k) /\ UNCHANGED <<now, qlcVars, collVars, discVars, workerVars, extVars>>
    \/ \E k \in Keys, v \in Values, ttl \in 0..MaxTtl :
            MemSet(k, v, ttl) /\ UNCHANGED <<now, qlcVars, collVars, discVars, workerVars, extVars>>
    \/ \E k \in Keys : MemDelete(k) /\ UNCHANGED <<now, qlcVars, collVars, discVars, workerVars, extVars>>
    \/ MemClear /\ UNCHANGED <<now, qlcVars, collVars, discVars, workerVars, extVars>>
    \/ MemCleanupExpired /\ UNCHANGED <<now, qlcVars, collVars, discVars, workerVars, extVars>>

SpecMemCache == InitMemCache /\ [][NextMemCache]_vars

InitFileCache ==
    /\ now = 0
    /\ MemInit
    /\ QlcInit
    /\ CollInit
    /\ DiscInit
    /\ WorkerInit
    /\ ExtInit

NextFileCache ==
    \/ Tick /\ UNCHANGED <<memVars, qlcVars, collVars, discVars, workerVars, extVars>>
    \/ \E a \in Accounts, r \in CacheRegions, s \in CacheServices, q \in CacheCodes :
            QlcGet(a, r, s, q) /\ UNCHANGED <<now, memVars, collVars, discVars, workerVars, extVars>>
    \/ \E a \in Accounts, r \in CacheRegions, s \in CacheServices, q \in CacheCodes,
          d \in QuotaData :
            QlcSet(a, r, s, q, d) /\ UNCHANGED <<now, memVars, collVars, discVars, workerVars, extVars>>
    \/ \E a \in Accounts \cup {None}, r \in CacheRegions \cup {None},
          s \in CacheServices \cup {None} :
            QlcClear(a, r, s) /\ UNCHANGED <<now, memVars, collVars, discVars, workerVars, extVars>>

SpecFileCache == InitFileCache /\ [][NextFileCache]_vars

\* The quota codes in use under each account: both codes under a1, one
\* under a2 (a second scope, to exercise the scope matching).
CodesOf(account_id) == IF account_id = "a1" THEN CollCodes ELSE {"q1"}

CollQuotas ==
    {<<s, q, n, a, r>> \in CollServices \X CollCodes \X CollNames \X CollAccounts \X CollRegions :
        q \in CodesOf(a)}

\* The QuotaResult values submitted to the collector.
ResultInputs ==
    {QuotaResult(x[1], x[2], x[3], "success", x[4], x[5], None, NoQuotaInfo, None) :
        x \in CollQuotas}
    \cup
    {QuotaResult(x[1][1], x[1][2], x[1][3], "success", x[1][4], x[1][5], None,
                 QuotaInfo(x[2], x[1][4], x[1][5]), None) :
        x \in CollQuotas \X LimitValues}
    \cup
    {QuotaResult(x[1][1], x[1][2], x[1][3], "skipped", x[1][4], x[1][5], x[2], NoQuotaInfo, None) :
        x \in CollQuotas \X {"not_applicable", None}}
    \cup
    {QuotaResult(x[1][1], x[1][2], x[1][3], "failed", x[1][4], x[1][5], ErrorType(x[2]),
                 NoQuotaInfo, x[2]) :
        x \in CollQuotas \X ErrorTexts}

\* The usage snapshots of an account: quota code -> usage value, for any
\* subset of its codes.
Snapshots(account_id) == UNION {[codes -> UsageValues] : codes \in SUBSET CodesOf(account_id)}

InitCollector ==
    /\ now = 0
    /\ MemInit
    /\ QlcInit
    /\ CollInit
    /\ DiscInit
    /\ WorkerInit
    /\ ExtInit

NextCollector ==
    \/ \E result \in ResultInputs :
            /\ Len(results) < MaxResults
            /\ add_result(result)
            /\ UNCHANGED <<now, memVars, qlcVars, discVars, workerVars, extVars>>
    \/ \E a \in CollAccounts, r \in CollRegions, s \in CollServices :
         \E ud \in Snapshots(a) :
            /\ set_usage_data(a, r, s, ud)
            /\ UNCHANGED <<now, memVars, qlcVars, discVars, workerVars, extVars>>

SpecCollector == InitCollector /\ [][NextCollector]_vars

\* The configuration and the remote catalog a discovery run can meet.
InitDiscovery ==
    /\ now = 0
    /\ MemInit
    /\ QlcInit
    /\ CollInit
    /\ disc_config \in {DiscoveryConfig(mr, "high") : mr \in SeqsUpTo(RulePool, MaxRules)}
    /\ disc_remote \in {[ok |-> TRUE, quotas |-> c] : c \in SeqsUpTo(CatalogPool, MaxCatalog)}
                       \cup {[ok |-> FALSE, quotas |-> << >>]}
    /\ disc_ret = DiscNoRet
    /\ WorkerInit
    /\ ExtInit

NextDiscovery ==
    discover_quotas /\ UNCHANGED <<now, memVars, qlcVars, collVars, workerVars, extVars>>

SpecDiscovery == InitDiscovery /\ [][NextDiscovery]_vars

\* The durable cache outlives the process: at construction the cache
\* directory holds the files an earlier run wrote (here at time 0), and the
\* cycle runs at some later time.
InitialCacheFiles ==
    { <<"a1", "us-east-1", "route53">> :> [timestamp |-> 0, quotas |-> ("L-R53" :> "d1")],
      <<"a1", "us-west-2", "ec2">> :> [timestamp |-> 0, quotas |-> ("L-EC2" :> "d1")] }

\* The union of a set of dicts with disjoint keys.
MergeDicts(ds) ==
    [k \in UNION {DOMAIN d : d \in ds} |-> (CHOOSE d \in ds : k \in DOMAIN d)[k]]

\* The calls of the worker: the region list of the account, collect_limit,
\* collect_usage and the force-refresh switch.
WorkerCalls ==
    {<<regions, m[1], m[2], m[3]>> :
        regions \in RegionLists,
        m \in {<<TRUE, TRUE, FALSE>>, <<TRUE, TRUE, TRUE>>, <<TRUE, FALSE, FALSE>>,
               <<TRUE, FALSE, TRUE>>, <<FALSE, TRUE, FALSE>>}}

InitWorker ==
    /\ now \in 0..MaxTime
    /\ MemInit
    /\ \E fs \in SUBSET InitialCacheFiles :
          /\ qlc_files = MergeDicts(fs)
          /\ qlc_written =
                [w \in {<<f, q>> \in (DOMAIN MergeDicts(fs)) \X {"L-R53", "L-EC2"} :
                           q \in DOMAIN MergeDicts(fs)[f].quotas} |-> 0]
    /\ qlc_ret = QlcNoRet
    /\ CollInit
    /\ DiscInit
    /\ WorkerInit
    /\ ExtInit

NextWorker ==
    \/ \E a \in WorkerAccounts, call \in WorkerCalls :
            /\ CollectAccountStart(a, call[1], call[2], call[3], call[4])
            /\ UNCHANGED <<now, memVars, qlcVars, collVars, discVars, extVars>>
    \/ RegionNext /\ UNCHANGED <<now, memVars, qlcVars, collVars, discVars, extVars>>
    \/ CollectAccountReturn /\ UNCHANGED <<now, memVars, qlcVars, collVars, discVars, extVars>>
    \/ \E answer \in UsageAnswers :
            CollectUsage(answer) /\ UNCHANGED <<now, memVars, qlcVars, collVars, discVars, extVars>>
    \/ LimitBegin /\ UNCHANGED <<now, memVars, qlcVars, collVars, discVars, extVars>>
    \/ LimitService /\ UNCHANGED <<now, memVars, qlcVars, collVars, discVars, extVars>>
    \/ RegionReturn /\ UNCHANGED <<now, memVars, qlcVars, collVars, discVars, extVars>>
    \/ QuotaBegin /\ UNCHANGED <<now, memVars, qlcVars, collVars, discVars, extVars>>
    \/ ServiceDone /\ UNCHANGED <<now, memVars, qlcVars, collVars, discVars, extVars>>
    \/ \E answer \in ApiAnswers :
            GetServiceQuota(answer) /\ UNCHANGED <<now, memVars, collVars, discVars, extVars>>

SpecWorker == InitWorker /\ [][NextWorker]_vars

InitScheduler ==
    /\ now = 0
    /\ MemInit
    /\ QlcInit
    /\ CollInit
    /\ DiscInit
    /\ WorkerInit
    /\ ActiveRegionDiscovererInit
    /\ CycleInit
    /\ MoreInit
    /\ \E li \in 1..MaxInterval, ui \in 1..MaxInterval : QuotaSchedulerInit(li, ui)

\* The scheduler as main() constructs it: the limit interval is the longer
\* one (86400 s against 3600 s).
InitSchedulerMain ==
    /\ now = 0
    /\ MemInit
    /\ QlcInit
    /\ CollInit
    /\ DiscInit
    /\ WorkerInit
    /\ ActiveRegionDiscovererInit
    /\ CycleInit
    /\ MoreInit
    /\ QuotaSchedulerInit(MaxInterval, 1)

ThreadStep(k, i) ==
    \/ LoopWhile(k, i)
    \/ Wake(k, i)
    \/ \E outcome \in CallbackOutcomes : Callback(k, i, outcome)
    \/ Except(k, i)

NextScheduler ==
    \/ start /\ UNCHANGED <<now, memVars, qlcVars, collVars, discVars, workerVars, ardVars, cycleVars, moreVars>>
    \/ stop /\ UNCHANGED <<now, memVars, qlcVars, collVars, discVars, workerVars, ardVars, cycleVars, moreVars>>
    \/ SleepTick /\ UNCHANGED <<now, memVars, qlcVars, collVars, discVars, workerVars, ardVars, cycleVars, moreVars>>
    \/ \E k \in LoopKinds : \E i \in 1..Len(threads[k]) :
            /\ ThreadStep(k, i)
            /\ UNCHANGED <<now, memVars, qlcVars, collVars, discVars, workerVars, ardVars, cycleVars, moreVars>>

SpecScheduler == InitScheduler /\ [][NextScheduler]_vars

\* The threads are daemon threads of the interpreter, each scheduled again
\* and again, and the clock advances; a callback that was entered ends.
\* start() and stop() are calls of the environment and may never come.
ThreadIds == LoopKinds \X (1..MaxStarts)

ThreadStepOf(t) ==
    /\ t[2] \in 1..Len(threads[t[1]])
    /\ ThreadStep(t[1], t[2])
    /\ UNCHANGED <<now, memVars, qlcVars, collVars, discVars, workerVars, ardVars, cycleVars, moreVars>>

FairScheduler ==
    /\ WF_vars(SleepTick /\ UNCHANGED <<now, memVars, qlcVars, collVars, discVars, workerVars, ardVars, cycleVars, moreVars>>)
    /\ \A t \in ThreadIds : WF_vars(ThreadStepOf(t))

SpecSchedulerFair == InitSchedulerMain /\ [][NextScheduler]_vars /\ FairScheduler

\* The CMDB inputs of a run: the candidate list may be empty (the query
\* failed or returned nothing), an account may lack a key.
InitRegions ==
    /\ now = 0
    /\ MemInit
    /\ QlcInit
    /\ CollInit
    /\ DiscInit
    /\ WorkerInit
    /\ QuotaSchedulerInit(MaxInterval, 1)
    /\ region_candidates \in {CandidateRegions, << >>}
    /\ account_credentials \in [ArdAccounts -> BOOLEAN]
    /\ ard_files = << >>
    /\ ard_last = ArdNoCall
    /\ CycleInit
    /\ MoreInit

NextRegions ==
    \/ Tick /\ UNCHANGED <<memVars, qlcVars, collVars, discVars, workerVars, extVars>>
    \/ \E uc \in BOOLEAN, fr \in BOOLEAN, answers \in ProbeAnswers :
            /\ discover_ec2_used_regions_from_provider(uc, fr, answers)
            /\ UNCHANGED <<now, memVars, qlcVars, collVars, discVars, workerVars, schedVars,
                           cycleVars, moreVars>>

SpecRegions == InitRegions /\ [][NextRegions]_vars

(***************************************************************************)
(* The region provider from start-up on: the discovery of main, then       *)
(* region lookups of the cycles while time passes.                         *)
(***************************************************************************)
InitRegionProvider ==
    /\ now = 0
    /\ MemInit
    /\ QlcInit
    /\ CollInit
    /\ DiscInit
    /\ WorkerInit
    /\ QuotaSchedulerInit(MaxInterval, 1)
    /\ region_candidates \in {CandidateRegions, << >>}
    /\ account_credentials \in [ArdAccounts -> BOOLEAN]
    /\ ard_files = << >>
    /\ ard_last = ArdNoCall
    /\ CycleInit
    /\ MoreInit

NextRegionProvider ==
    \/ Tick /\ UNCHANGED <<memVars, qlcVars, collVars, discVars, workerVars, extVars>>
    \/ \E fr \in BOOLEAN, answers \in ProbeAnswers :
            /\ StartupDiscovery(fr, answers)
            /\ UNCHANGED <<now, memVars, qlcVars, collVars, discVars, workerVars, schedVars,
                           cycleVars, cy_start, cycleInputVars, cycleLogVars, laterVars>>
    \/ \E a \in ArdAccounts, answers \in ProbeAnswers :
            /\ get_regions(a, answers)
            /\ UNCHANGED <<now, memVars, qlcVars, collVars, discVars, workerVars, schedVars,
                           cycleVars, cy_start, cycleInputVars, cycleLogVars, laterVars>>

SpecRegionProvider == InitRegionProvider /\ [][NextRegionProvider]_vars

(***************************************************************************)
(* One cycle of collect_quotas from the inputs a cycle can meet.           *)
(***************************************************************************)
\* The aggregator after an earlier cycle collected usage and one limit of
\* ec2 for a1 in us-west-2.
EarlierCycleColl ==
    AddResultTo(SetUsageDataTo(EmptyColl, "a1", "us-west-2", "ec2", CycleUsageDictOf("ec2")),
                SuccessResult("ec2", QuotasOf("ec2")[1], "a1", "us-west-2", ApiQuotaInfo))

\* The aggregator after three earlier cycles: cloudfront usage was applied,
\* a limit cycle submitted the cloudfront result, and a usage cycle then
\* stored a snapshot in which the collector had left the quota's code out
\* (its list_distributions call failed, the call for another code did not).
StaleUsageColl ==
    SetUsageDataTo(
        AddResultTo(
            SetUsageDataTo(EmptyColl, "a1", DefaultRegion, "cloudfront",
                           CycleUsageDictOf("cloudfront")),
            CloudfrontResults("a1", DefaultRegion, QuotasOf("cloudfront"), 1)[1]),
        "a1", DefaultRegion, "cloudfront", [q \in {"L-7D134442"} |-> 5])

\* The limit cache after an earlier cycle fetched the same limit.
EarlierCycleFiles ==
    QlcStore(<< >>, GetCacheFilePath("a1", "us-west-2", "ec2"), "L-EC2A", ApiQuotaInfo, 0)

\* (USE_CONCURRENT_COLLECTION, account list)
CycleModes ==
    { <<TRUE, <<"a1">>>>, <<TRUE, <<"a1", "a2">>>>, <<FALSE, <<"a1", "a2">>>> }

\* (collect_limit, collect_usage): the start-up cycle and the two callbacks
\* of the scheduler.
CycleFlags == { <<TRUE, TRUE>>, <<TRUE, FALSE>>, <<FALSE, TRUE>> }

\* (cache files, FORCE_REFRESH_QUOTA_LIMITS)
CycleCaches == { <<FALSE, FALSE>>, <<TRUE, FALSE>>, <<TRUE, TRUE>> }

CycleUsageAnswers == { {}, {"cloudfront"}, {"ec2", "route53", "cloudfront"} }

\* The quota codes whose fetch fails: any of the static ones, the
\* discovered ones, or all.
CycleFailures == SUBSET (ApiCodes \ DiscoveredCodes) \cup {DiscoveredCodes, ApiCodes}

\* ListServiceQuotas raises, or answers the catalog.
CycleCatalogAnswers ==
    { [ok |-> FALSE, quotas |-> << >>], [ok |-> TRUE, quotas |-> CycleCatalog] }

\* What get_credentials does for each account: every account has stored
\* keys, the call raises for the first, the store has none for the second.
CycleCredentials ==
    { [a \in CycleAccounts |-> "stored"],
      [a \in CycleAccounts |-> IF a = "a1" THEN "raises" ELSE "stored"],
      [a \in CycleAccounts |-> IF a = "a2" THEN "absent" ELSE "stored"] }

CycleInputsOf(modes) ==
    /\ now = 0
    /\ MemInit
    /\ DiscInit
    /\ WorkerInit
    /\ QuotaSchedulerInit(MaxInterval, 1)
    /\ ActiveRegionDiscovererInit
    /\ \E cache \in CycleCaches :
          /\ qlc_files = IF cache[1] THEN EarlierCycleFiles ELSE << >>
          /\ qlc_written =
                IF cache[1]
                THEN [w \in {<<GetCacheFilePath("a1", "us-west-2", "ec2"), "L-EC2A">>} |-> 0]
                ELSE << >>
          /\ cycle_force_refresh = cache[2]
    /\ qlc_ret = QlcNoRet
    /\ \E c \in {EmptyColl, EarlierCycleColl, StaleUsageColl} :
          /\ results = c.results
          /\ usage_data = c.usage_data
          /\ quota_limit = c.g.limit
          /\ quota_usage = c.g.usage
          /\ quota_usage_percent = c.g.percent
          /\ scrape_errors_total = c.errors
          /\ scrape_skipped_total = c.skipped
    /\ coll_last = CollNoCall
    /\ cy_pc = "idle"
    /\ \E mode \in modes :
          /\ use_concurrent = mode[1]
          /\ accounts = mode[2]
    /\ \E r1 \in RegionLists :
          cy_regions = [a \in CycleAccounts |-> IF a = "a1" THEN r1 ELSE <<"us-west-2">>]
    /\ cy_fail \in CycleFailures
    /\ cy_usage \in CycleUsageAnswers
    /\ \E flags \in CycleFlags :
          /\ cycle_collect_limit = flags[1]
          /\ cycle_collect_usage = flags[2]
    /\ workers = << >>
    /\ all_results = << >>
    /\ usage_data_list = << >>
    /\ cy_fetches = << >>
    /\ cy_start = [coll |-> CollState, files |-> qlc_files]
    /\ CMDBRegionProviderInit
    /\ LaterInit
    /\ cy_catalog \in CycleCatalogAnswers
    /\ cy_creds \in CycleCredentials
    /\ cy_clients = << >>
    /\ cy_discoveries = << >>
    \* The failures of the catalog and of the credentials are met by the
    \* first cycle of a process: an empty aggregator and an empty cache.
    /\ (~cy_catalog.ok \/ \E a \in CycleAccounts : cy_creds[a] # "stored") =>
            (CollState = EmptyColl /\ qlc_files = << >> /\ ~cycle_force_refresh)

CycleInputs == CycleInputsOf(CycleModes)

\* (USE_CONCURRENT_COLLECTION, account list) when get_accounts returns the
\* empty list or one account: collect_quotas takes the sequential branch.
FewAccountsModes ==
    { <<TRUE, << >>>>, <<FALSE, << >>>>, <<TRUE, <<"a1">>>> }

\* A first cycle over no account or one account.
InitFewAccounts ==
    /\ CycleInputsOf(FewAccountsModes)
    /\ cy_client_fail = {}
    /\ CollState = EmptyColl /\ qlc_files = << >> /\ ~cycle_force_refresh

\* A cycle in which every client construction succeeds.
InitCycle == CycleInputs /\ cy_client_fail = {}

\* A first cycle in which the construction of a client for us-east-1 raises.
InitClientFailure ==
    /\ CycleInputs
    /\ cy_client_fail = {DefaultRegion}
    /\ cy_catalog.ok
    /\ \A a \in CycleAccounts : cy_creds[a] = "stored"
    /\ CollState = EmptyColl /\ qlc_files = << >> /\ ~cycle_force_refresh

NextCycle ==
    \/ CycleStart /\ UNCHANGED <<now, memVars, discVars, workerVars, schedVars, ardVars, moreVars>>
    \/ \E a \in AccountSet :
            WorkerRun(a) /\ UNCHANGED <<now, memVars, discVars, workerVars, schedVars, ardVars,
                                        cy_start, regionProviderVars, cycleInputVars, laterVars>>
    \/ \E a \in AccountSet :
            Merge(a) /\ UNCHANGED <<now, memVars, discVars, workerVars, schedVars, ardVars, moreVars>>
    \/ ApplyUsage /\ UNCHANGED <<now, memVars, discVars, workerVars, schedVars, ardVars, moreVars>>
    \/ SequentialRun /\ UNCHANGED <<now, memVars, discVars, workerVars, schedVars, ardVars,
                                  cy_start, regionProviderVars, cycleInputVars, laterVars>>
    \/ CollectAll /\ UNCHANGED <<now, memVars, discVars, workerVars, schedVars, ardVars, moreVars>>
    \/ Reapply /\ UNCHANGED <<now, memVars, discVars, workerVars, schedVars, ardVars, moreVars>>

SpecCycle == InitCycle /\ [][NextCycle]_vars

\* The steps of a cycle that takes the sequential branch.
NextFewAccounts ==
    \/ CycleStart /\ UNCHANGED <<now, memVars, discVars, workerVars, schedVars, ardVars, moreVars>>
    \/ SequentialRun /\ UNCHANGED <<now, memVars, discVars, workerVars, schedVars, ardVars,
                                  cy_start, regionProviderVars, cycleInputVars, laterVars>>
    \/ CollectAll /\ UNCHANGED <<now, memVars, discVars, workerVars, schedVars, ardVars, moreVars>>
    \/ Reapply /\ UNCHANGED <<now, memVars, discVars, workerVars, schedVars, ardVars, moreVars>>

SpecFewAccounts == InitFewAccounts /\ [][NextFewAccounts]_vars

SpecClientFailure == InitClientFailure /\ [][NextCycle]_vars

InitTrainingJobs ==
    /\ now = 0
    /\ MemInit
    /\ QlcInit
    /\ CollInit
    /\ DiscInit
    /\ WorkerInit
    /\ ExtInit

NextTrainingJobs ==
    \/ \E max_pages \in MaxPagesChoices, timeout_seconds \in 1..MaxTimeoutSeconds :
            get_training_job_count(max_pages, timeout_seconds)
            /\ UNCHANGED <<now, memVars, qlcVars, collVars, discVars, workerVars, schedVars,
                           ardVars, cycleVars, cy_start, regionProviderVars, cycleInputVars,
                           cycleLogVars, entryVars>>
    \/ \E page_jobs \in 0..MaxPageJobs, seconds \in 0..MaxPageSeconds :
            Page(page_jobs, seconds)
            /\ UNCHANGED <<now, memVars, qlcVars, collVars, discVars, workerVars, schedVars,
                           ardVars, cycleVars, cy_start, regionProviderVars, cycleInputVars,
                           cycleLogVars, entryVars>>
    \/ LastPageSeen
            /\ UNCHANGED <<now, memVars, qlcVars, collVars, discVars, workerVars, schedVars,
                           ardVars, cycleVars, cy_start, regionProviderVars, cycleInputVars,
                           cycleLogVars, entryVars>>
    \/ PageRaises
            /\ UNCHANGED <<now, memVars, qlcVars, collVars, discVars, workerVars, schedVars,
                           ardVars, cycleVars, cy_start, regionProviderVars, cycleInputVars,
                           cycleLogVars, entryVars>>

SpecTrainingJobs == InitTrainingJobs /\ [][NextTrainingJobs]_vars

Init == InitMemCache
InitEntryPoints ==
    /\ now = 0
    /\ MemInit
    /\ QlcInit
    /\ CollInit
    /\ DiscInit
    /\ WorkerInit
    /\ ExtInit

NextEntryPoints ==
    \/ \E entry \in EntryPoints :
            Enter(entry)
            /\ UNCHANGED <<now, memVars, qlcVars, discVars, workerVars, schedVars, ardVars,
                           cycleVars, cy_start, regionProviderVars, cycleInputVars,
                           cycleLogVars, trainingJobVars>>
    \/ \E entry \in EntryPoints : \E calls \in CallsOf(entry) :
            Collected(entry, calls)
            /\ UNCHANGED <<now, memVars, qlcVars, discVars, workerVars, schedVars, ardVars,
                           cycleVars, cy_start, regionProviderVars, cycleInputVars,
                           cycleLogVars, trainingJobVars>>
    \/ \E entry \in EntryPoints :
            AggregatorCall(entry)
            /\ UNCHANGED <<now, memVars, qlcVars, discVars, workerVars, schedVars, ardVars,
                           cycleVars, cy_start, regionProviderVars, cycleInputVars,
                           cycleLogVars, trainingJobVars>>
    \/ \E entry \in EntryPoints :
            Return(entry)
            /\ UNCHANGED <<now, memVars, qlcVars, discVars, workerVars, schedVars, ardVars,
                           cycleVars, cy_start, regionProviderVars, cycleInputVars,
                           cycleLogVars, trainingJobVars>>

SpecEntryPoints == InitEntryPoints /\ [][NextEntryPoints]_vars

Next ==
    \/ NextMemCache \/ NextFileCache \/ NextCollector \/ NextDiscovery \/ NextWorker
    \/ NextScheduler \/ NextRegions \/ NextCycle \/ NextRegionProvider
    \/ NextTrainingJobs \/ NextEntryPoints
Spec == Init /\ [][Next]_vars

(***************************************************************************)
(* C1: after set(k, v, ttl) at time t with no later set, delete or clear   *)
(* of k, get(k) returns (v, hit) at every time now < t + ttl and a miss at *)
(* every time now >= t + ttl.                                              *)
(***************************************************************************)
C1_HitBeforeMissFromExpiry ==
    (mem_ret.called /\ mem_ret.key \in DOMAIN mem_last_set) =>
        LET s == mem_last_set[mem_ret.key] IN
        /\ mem_ret.at < s.time + s.ttl => (mem_ret.exists /\ mem_ret.value = s.value)
        /\ mem_ret.at >= s.time + s.ttl => (~mem_ret.exists /\ mem_ret.value = None)

(***************************************************************************)
(* C2: QuotaLimitCache.get returns a value only if that quota code's value *)
(* was written by set within cache_ttl before the read: no entry older     *)
(* than the TTL is ever returned.                                          *)
(***************************************************************************)
C2_NoEntryOlderThanTtlReturned ==
    (qlc_ret.called /\ qlc_ret.value # None) =>
        /\ <<qlc_ret.scope, qlc_ret.quota_code>> \in DOMAIN qlc_written
        /\ qlc_ret.at - qlc_written[<<qlc_ret.scope, qlc_ret.quota_code>>] <= CacheTtl

(***************************************************************************)
(* C3: in both cache layers a read that finds an expired entry reports it  *)
(* as absent and removes the entry from the store: after the read the      *)
(* expired entry is no longer stored.                                      *)
(***************************************************************************)
C3_ExpiredReadEvicts ==
    /\ mem_ret.called =>
          ~(/\ mem_ret.key \in DOMAIN mem_cache
            /\ mem_ret.at > mem_cache[mem_ret.key].expiration_time)
    /\ qlc_ret.called =>
          ~(/\ qlc_ret.scope \in DOMAIN qlc_files
            /\ qlc_ret.quota_code \in DOMAIN qlc_files[qlc_ret.scope].quotas
            /\ qlc_ret.at - qlc_files[qlc_ret.scope].timestamp > CacheTtl)

(***************************************************************************)
(* Helpers of the collector claims.                                        *)
(***************************************************************************)
LastResult == results[Len(results)]
LabelsOf(r) == Labels(r.account_id, r.region, r.service, r.quota_name, r.quota_code)
LimitOf(r) == IF r.quota_info.present THEN r.quota_info.value ELSE 0
AfterAddSuccess == coll_last.op = "add_result" /\ Len(results) >= 1 /\ is_success(LastResult)
AfterSetUsage == coll_last.op = "set_usage_data" /\ coll_last.key \in DOMAIN usage_data

\* p is the value u / l * 100 (l > 0), or not-a-number (l = 0).
IsPercentOf(p, u, l) ==
    IF l > 0 THEN p[2] > 0 /\ p[1] * l = u * 100 * p[2] ELSE p = NaN

\* results[i] is a Success result that set_usage_data(key) matches.
SuccessMatch(i, key) ==
    /\ is_success(results[i])
    /\ results[i].quota_info.present
    /\ results[i].quota_info.account_id = key[1]
    /\ results[i].quota_info.region = key[2]
    /\ results[i].service = key[3]
    /\ results[i].quota_code \in DOMAIN usage_data[key]

\* results[i] is a Skipped result that set_usage_data(key) matches.
SkippedMatch(i, key) ==
    /\ is_skipped(results[i])
    /\ results[i].account_id = key[1]
    /\ results[i].region = key[2]
    /\ results[i].service = key[3]
    /\ results[i].quota_code \in DOMAIN usage_data[key]

(***************************************************************************)
(* C4: submitting the same Success result twice in a row with add_result   *)
(* leaves the limit, usage and usage-percent series as after the first     *)
(* submission, the limit being the result's limit (not doubled); and       *)
(* re-submitting the snapshot just submitted with set_usage_data leaves    *)
(* every series value unchanged.                                           *)
(***************************************************************************)
C4_ResubmitAddResult ==
    (/\ AfterAddSuccess
     /\ coll_last'.op = "add_result"
     /\ Len(results') = Len(results) + 1
     /\ results'[Len(results')] = LastResult
     /\ usage_data' = usage_data)
    => /\ quota_limit' = quota_limit
       /\ quota_usage' = quota_usage
       /\ quota_usage_percent' = quota_usage_percent
       /\ quota_limit'[LabelsOf(LastResult)] = Num(LimitOf(LastResult))

C4_ResubmitSnapshot ==
    (/\ AfterSetUsage
     /\ coll_last'.op = "set_usage_data"
     /\ coll_last'.key = coll_last.key
     /\ usage_data' = usage_data
     /\ results' = results)
    => /\ quota_limit' = quota_limit
       /\ quota_usage' = quota_usage
       /\ quota_usage_percent' = quota_usage_percent

C4_SubmissionIdempotent == [][C4_ResubmitAddResult /\ C4_ResubmitSnapshot]_vars

\* The same Success result has been submitted twice in a row, with a usage
\* value of its quota stored.
C4_Witness ==
    /\ AfterAddSuccess
    /\ Len(results) = 2
    /\ results[1] = results[2]
    /\ LimitOf(LastResult) > 0
    /\ quota_usage[LabelsOf(LastResult)] # NaN

C6_MissingUsageIsNaN ==
    AfterAddSuccess =>
        LET r == LastResult
            found == HasUsageValue(usage_data, r.account_id, r.region, r.service, r.quota_code)
        IN /\ ~found => /\ quota_usage[LabelsOf(r)] = NaN
                        /\ quota_usage_percent[LabelsOf(r)] = NaN
           /\ quota_usage[LabelsOf(r)] = Num(0) =>
                 /\ found
                 /\ GetUsageValue(usage_data, r.account_id, r.region, r.service, r.quota_code) = 0

\* A Success result was added while the snapshot of its scope held another
\* quota code only.
C6_Witness ==
    /\ AfterAddSuccess
    /\ <<LastResult.account_id, LastResult.region, LastResult.service>> \in DOMAIN usage_data
    /\ usage_data[<<LastResult.account_id, LastResult.region, LastResult.service>>] # << >>
    /\ ~HasUsageValue(usage_data, LastResult.account_id, LastResult.region,
                      LastResult.service, LastResult.quota_code)
    /\ quota_usage[LabelsOf(LastResult)] = NaN

CaseInsensitiveSubstring(keyword, name) ==
    \E off \in 0..(Len(name) - Len(keyword)) :
        \A j \in 1..Len(keyword) : LowerChar(name[off + j]) = LowerChar(keyword[j])
SatisfiesRule(name, rule) ==
    \A k \in 1..Len(rule.name_contains) : CaseInsensitiveSubstring(rule.name_contains[k], name)
SatisfiesSomeRule(name) ==
    \E r \in 1..Len(disc_config.match_rules) : SatisfiesRule(name, disc_config.match_rules[r])
SatisfyingEntries ==
    {i \in 1..Len(disc_remote.quotas) : SatisfiesSomeRule(disc_remote.quotas[i].quota_name)}
NthSatisfying(n) ==
    CHOOSE i \in SatisfyingEntries : Cardinality({j \in SatisfyingEntries : j <= i}) = n
DiscoveryAnswered == disc_ret.called /\ disc_remote.ok
NotebookUsageRule == [name_contains |-> <<KwNotebook, KwUsage>>]

(***************************************************************************)
(* C9: discover_quotas returns exactly the entries of the remote catalog   *)
(* whose quota name satisfies at least one configured rule, in catalog     *)
(* order, a name satisfying a rule iff every keyword of its name_contains  *)
(* list is a case-insensitive substring of the name; under the single rule *)
(* ["notebook", "usage"] an entry named "Notebook instance usage" is       *)
(* returned and one named "Notebook instance count" is not.                *)
(***************************************************************************)
C9_DiscoveryReturnsExactlyMatching ==
    DiscoveryAnswered =>
        /\ Len(disc_ret.value) = Cardinality(SatisfyingEntries)
        /\ \A n \in 1..Len(disc_ret.value) :
              /\ disc_ret.value[n].quota_code = disc_remote.quotas[NthSatisfying(n)].quota_code
              /\ disc_ret.value[n].quota_name = disc_remote.quotas[NthSatisfying(n)].quota_name
        /\ disc_config.match_rules = <<NotebookUsageRule>> =>
              \A i \in 1..Len(disc_remote.quotas) :
                 /\ disc_remote.quotas[i].quota_name = NotebookInstanceUsage =>
                       \E n \in 1..Len(disc_ret.value) :
                          disc_ret.value[n].quota_name = NotebookInstanceUsage
                 /\ disc_remote.quotas[i].quota_name = NotebookInstanceCount =>
                       \A n \in 1..Len(disc_ret.value) :
                          disc_ret.value[n].quota_name # NotebookInstanceCount

\* C9 witness: under the rule ["notebook", "usage"] a catalog holding both
\* notebook quotas was filtered down to "Notebook instance usage".
C9_Witness ==
    /\ DiscoveryAnswered
    /\ disc_config.match_rules = <<NotebookUsageRule>>
    /\ disc_remote.quotas =
          <<[quota_code |-> "L-NB2", quota_name |-> NotebookInstanceCount],
            [quota_code |-> "L-NB1", quota_name |-> NotebookInstanceUsage]>>
    /\ disc_ret.value = <<QuotaItem("L-NB1", NotebookInstanceUsage, "high")>>

(***************************************************************************)
(* Helpers of the worker claims.                                           *)
(***************************************************************************)
WorkerReturned == w_pc = "returned"
ItemsOfService(s) ==
    {i \in 1..Len(account_results) : account_results[i].service = s}
LimitResultsOfService(s) ==
    {i \in ItemsOfService(s) : ~IsUsageItem(account_results[i])}

RECURSIVE SumMs(_)
SumMs(sleeps) == IF sleeps = << >> THEN 0 ELSE Head(sleeps).ms + SumMs(Tail(sleeps))
\* The time slept after the n-th call of the current fetch.
SleptAfter(n) == SumMs(SelectSeq(w_fetch.sleeps, LAMBDA sl : sl.after = n))
\* The time slept for the current fetch once it has been throttled, the
\* 0.1 s delay before the first call left aside.
SleptForThrottling == SumMs(SelectSeq(w_fetch.sleeps, LAMBDA sl : sl.why # "delay"))
AbandonedAfterThreeThrottles == w_fetch.outcome = "failed" /\ w_fetch.throttled = 3

(***************************************************************************)
(* C8 (as claimed): when the region provider returns no region for the     *)
(* account, the worker visits the default region us-east-1 only, returns a *)
(* result for every quota of every configured global service (route53,     *)
(* cloudfront) when limits are collected, every item it returns carries    *)
(* us-east-1, and it returns no result and no usage snapshot of a regional *)
(* service (ec2, ebs, elasticloadbalancing, eks, elasticache, sagemaker).  *)
(***************************************************************************)
C8_FallbackYieldsGlobalServicesOnly ==
    (WorkerReturned /\ w_fallback) =>
        /\ \A i \in 1..Len(account_results) : account_results[i].region = DefaultRegion
        /\ collect_limit =>
              \A s \in ConfiguredServices \cap global_services : LimitResultsOfService(s) # {}
        /\ \A s \in regional_services : ItemsOfService(s) = {}

(***************************************************************************)
(* C10 (as claimed): when the limit fetch of a quota is throttled on three *)
(* consecutive calls, the worker has slept 2 s after the first throttled   *)
(* call and 4 s after the second, 6 s in all for the quota, and gives the  *)
(* fetch up after the third call.                                          *)
(***************************************************************************)
C10_ThreeThrottlesWaitSixSeconds ==
    AbandonedAfterThreeThrottles =>
        /\ w_fetch.attempts = 3
        /\ SleptAfter(1) = 2000
        /\ SleptAfter(2) = 4000
        /\ SleptForThrottling = 6000

(***************************************************************************)
(* C11: every step that calls the remote limit API is at most the third    *)
(* call of the quota's fetch; a second or third call is made only when     *)
(* every earlier call of the fetch ended in TooManyRequestsException; and  *)
(* the call that ends in the third such error leaves the retry loop with a *)
(* Failed result for the quota, so that no further call is made.           *)
(***************************************************************************)
C11_RetryStep ==
    w_fetch'.attempts > w_fetch.attempts =>
        /\ w_fetch.outcome = "pending"
        /\ w_fetch'.attempts = w_fetch.attempts + 1
        /\ w_fetch'.attempts <= 3
        /\ w_fetch.throttled = w_fetch.attempts
        /\ w_fetch'.throttled = 3 =>
              /\ w_fetch'.outcome = "failed"
              /\ w_pc' = "quota"
              /\ Len(region_results') = Len(region_results) + 1
              /\ is_failed(region_results'[Len(region_results')])
              /\ region_results'[Len(region_results')].quota_code = w_fetch.quota_code
C11_RetryLoopTerminates == [][C11_RetryStep]_vars

\* C11 witness: a fetch was given up after three calls, all of them
\* throttled, and its Failed result is the last one of the region.
C11_Witness ==
    /\ w_pc = "quota"
    /\ w_fetch.attempts = 3
    /\ w_fetch.throttled = 3
    /\ w_fetch.outcome = "failed"
    /\ Len(region_results) >= 1
    /\ is_failed(region_results[Len(region_results)])

(***************************************************************************)
(* Scheduler claims.                                                       *)
(***************************************************************************)
\* The threads of loop k that the i-th start() created.
Started(i) == i \in 1..Len(threads["limit"])

(***************************************************************************)
(* C12: the two loops stop independently: when the usage loop that a       *)
(* start() created has stopped, the limit loop of the same start() is      *)
(* still in its cycle, and when the limit loop has stopped the usage loop  *)
(* is still in its cycle.                                                  *)
(***************************************************************************)
C12_LoopsStopIndependently ==
    \A i \in 1..MaxStarts :
        Started(i) =>
            /\ ~Alive("usage", i) => Alive("limit", i)
            /\ ~Alive("limit", i) => Alive("usage", i)

(***************************************************************************)
(* C13: a callback that raises never ends its loop.  A thread leaves its   *)
(* loop only in a step that reads _running as false; the step after the    *)
(* except clause is the test of the while; and, the threads being          *)
(* scheduled and the clock advancing, a thread in its except clause sleeps *)
(* a whole interval and enters its callback again unless the scheduler     *)
(* stops running in between.                                               *)
(***************************************************************************)
C13_ThreadStep(k, i) ==
    /\ (Alive(k, i) /\ ~Alive(k, i)') => ~running
    /\ threads[k][i].pc = "except" /\ threads'[k][i] # threads[k][i] =>
            threads'[k][i].pc = "while"
    /\ threads[k][i].pc # "sleeping" /\ threads'[k][i].pc = "sleeping" =>
            threads'[k][i].remaining = Interval(k)
    /\ threads[k][i].pc # "callback" /\ threads'[k][i].pc = "callback" =>
            /\ threads[k][i].pc = "sleeping"
            /\ threads[k][i].remaining = 0
C13_Step ==
    \A k \in LoopKinds : \A i \in 1..Len(threads[k]) : C13_ThreadStep(k, i)
PcOf(k, i) == IF i \in 1..Len(threads[k]) THEN threads[k][i].pc ELSE "unborn"
C13_CalledAgain ==
    \A t \in ThreadIds :
        (PcOf(t[1], t[2]) = "except") ~> (PcOf(t[1], t[2]) = "callback" \/ ~running)
C13_ExceptionNeverEndsLoop == [][C13_Step]_vars /\ C13_CalledAgain

\* C13 witness: with no stop() so far, the callbacks of both loops raised
\* in their last cycle and both loops are in their callback again.
C13_Witness ==
    /\ running
    /\ Len(threads["usage"]) = 1
    /\ \A k \in LoopKinds : threads[k][1].pc = "callback" /\ threads[k][1].failed

(***************************************************************************)
(* Active-region cache claims.                                             *)
(***************************************************************************)
\* A step that is a discovery call made less than the ttl after the call
\* before it, both with use_cache on, the later one with force_refresh off.
SecondCallWithinTtl ==
    /\ ard_last.called
    /\ ard_last' # ard_last
    /\ ard_last.use_cache
    /\ ard_last'.use_cache
    /\ ~ard_last'.force_refresh
    /\ ard_last'.time - ard_last.time < RegionsCacheTtl

\* The later call returns, for every account the earlier call probed, the
\* region list the earlier call returned.
SameListForProbed ==
    \A a \in ard_last.probed :
        /\ a \in DOMAIN ard_last'.result
        /\ ard_last'.result[a] = ard_last.result[a]

CycleDone == cy_pc = "done"
ConcurrentMode == use_concurrent /\ Len(accounts) > 1

\* all_results holds a result of the quota for the account, produced in the
\* iteration of the region (under the region or under the service region).
ResultFor(a, region, service, quota_code) ==
    \E i \in 1..Len(all_results) :
        /\ all_results[i].account_id = a
        /\ all_results[i].service = service
        /\ all_results[i].quota_code = quota_code
        /\ all_results[i].region \in {region, ServiceRegion(service, region)}

FailedResultFor(a, region, service, quota_code) ==
    \E i \in 1..Len(all_results) :
        /\ all_results[i].account_id = a
        /\ all_results[i].service = service
        /\ all_results[i].quota_code = quota_code
        /\ all_results[i].region \in {region, ServiceRegion(service, region)}
        /\ is_failed(all_results[i])

\* The regions an account is collected in, as a set.
RegionSetOf(a) ==
    LET rs == RegionsOrDefault(cy_regions[a]) IN {rs[i] : i \in 1..Len(rs)}

(***************************************************************************)
(* C15: in a limit cycle in which some fetch fails, every configured quota *)
(* of every service, in every region of every account of the list, has its *)
(* own result at the end of the cycle, and a quota whose fetch failed has  *)
(* a Failed result.                                                        *)
(***************************************************************************)
C15_FailureDoesNotAbortCycle ==
    (CycleDone /\ cycle_collect_limit /\ cy_fail # {}) =>
        \A a \in AccountSet : \A region \in RegionSetOf(a) :
            \A service \in CycleServices : \A q \in CodesOfService(service) :
                /\ ResultFor(a, region, service, q)
                /\ (\E i \in 1..Len(cy_fetches) :
                        /\ cy_fetches[i].account_id = a
                        /\ cy_fetches[i].quota_code = q
                        /\ cy_fetches[i].region = ServiceRegion(service, region)
                        /\ cy_fetches[i].status = "failed")
                   => FailedResultFor(a, region, service, q)

\* What the concurrent branch yields for the inputs of the cycle: the items
\* of the workers of all accounts.
ConcurrentItems ==
    UNION { LET items == collect_account_quotas(qlc_files, a).items
            IN  {items[i] : i \in 1..Len(items)} : a \in AccountSet }

(***************************************************************************)
(* C16: a cycle that ran in sequential mode has processed every account of *)
(* the list and has yielded the results and the usage snapshots that the   *)
(* concurrent branch yields for the same accounts, regions, configuration, *)
(* remote answers and cache.  (The sequential branch leaves the cache      *)
(* files as they were, so the concurrent branch is computed from them.)    *)
(***************************************************************************)
C16_SequentialYieldsWhatConcurrentYields ==
    (CycleDone /\ ~ConcurrentMode) =>
        /\ {all_results[i] : i \in 1..Len(all_results)} =
               {item \in ConcurrentItems : ~IsUsageItem(item)}
        /\ \A item \in ConcurrentItems :
               IsUsageItem(item) =>
                   /\ <<item.account_id, item.region, item.service>> \in DOMAIN usage_data
                   /\ usage_data[<<item.account_id, item.region, item.service>>] =
                          item.usage_data

(***************************************************************************)
(* C17: every evaluation of a statically configured quota, in either mode, *)
(* reads the cache first: with a valid entry and force-refresh off it makes*)
(* no remote call and yields a Success; otherwise it calls the remote API  *)
(* and writes a successful response to the cache.                          *)
(***************************************************************************)
C17_CacheFirstThenWriteThrough ==
    \A i \in 1..Len(cy_fetches) :
        cy_fetches[i].quota_code \in CodesOfService(cy_fetches[i].service) =>
            /\ (cy_fetches[i].valid /\ ~cycle_force_refresh) =>
                   (~cy_fetches[i].called /\ cy_fetches[i].status = "success")
            /\ ~cy_fetches[i].valid =>
                   /\ cy_fetches[i].called
                   /\ cy_fetches[i].status = "success" => cy_fetches[i].wrote

(***************************************************************************)
(* C18: the limit phase creates Skipped results, and no Success result,    *)
(* for the configured quotas of cloudfront; with usage collected for       *)
(* cloudfront each such quota has a usage series entry and a not-a-number  *)
(* percent at the end of the cycle.                                        *)
(***************************************************************************)
C18_CloudfrontResultsAreSkipped ==
    (CycleDone /\ cycle_collect_limit) =>
        \A i \in 1..Len(all_results) :
            all_results[i].service = "cloudfront" =>
                /\ is_skipped(all_results[i])
                /\ (cycle_collect_usage /\ "cloudfront" \in cy_usage) =>
                       /\ LabelsOf(all_results[i]) \in DOMAIN quota_usage
                       /\ LabelsOf(all_results[i]) \in DOMAIN quota_usage_percent
                       /\ quota_usage_percent[LabelsOf(all_results[i])] = NaN

\* A series keeps every value it holds.
SeriesKept(series) == \A l \in DOMAIN series : l \in DOMAIN series' /\ series'[l] = series[l]

(***************************************************************************)
(* C19: in a cycle in which every limit fetch fails and every usage        *)
(* collector returns no data, no step changes a value that the limit, the  *)
(* usage or the usage-percent series holds, and the counter of skipped     *)
(* results stays as it is.                                                 *)
(***************************************************************************)
C19_FailedCycleKeepsSeries ==
    [][(cy_fail = ApiCodes /\ cy_usage = {}) =>
          /\ SeriesKept(quota_limit)
          /\ SeriesKept(quota_usage)
          /\ SeriesKept(quota_usage_percent)
          /\ scrape_skipped_total' = scrape_skipped_total]_vars

(***************************************************************************)
(* C20: in concurrent mode a step writes to the aggregator only when every *)
(* account worker of the cycle has completed, and the step of a worker     *)
(* leaves the aggregator as it is.                                         *)
(***************************************************************************)
C20_UsageAppliedAfterAllWorkers ==
    [][(ConcurrentMode /\ cy_pc # "idle") =>
          /\ (collVars' # collVars) =>
                 \A a \in AccountSet : workers[a].state \in {"finished", "merged"}
          /\ (workers' # workers /\ \E a \in AccountSet :
                    workers[a].state = "queued" /\ workers'[a].state = "finished")
                 => collVars' = collVars]_vars

\* C20 witness: in concurrent mode the usage items of both accounts were
\* buffered and are in the aggregator after the pool has drained.
C20_Witness ==
    /\ ConcurrentMode
    /\ cy_pc = "collect_all"
    /\ \A a \in AccountSet :
           \E i \in 1..Len(usage_data_list) :
               /\ usage_data_list[i].account_id = a
               /\ <<a, usage_data_list[i].region, usage_data_list[i].service>>
                      \in DOMAIN usage_data

\* The list in the opposite order.
Reverse(s) == [i \in 1..Len(s) |-> s[Len(s) + 1 - i]]

\* The items of the workers of the accounts, run and merged in list order.
RECURSIVE RunWorkers(_, _, _, _)
RunWorkers(files, accs, i, items) ==
    IF i > Len(accs)
    THEN items
    ELSE LET acc == collect_account_quotas(files, accs[i])
         IN  RunWorkers(acc.files, accs, i + 1, items \o acc.items)

\* The aggregator at the end of the cycle when collect_quotas runs from the
\* state at cycle start with the account list accs, the accounts being
\* processed and completing in the order of that list.
CycleOutcome(at_start, accs) ==
    LET items == RunWorkers(at_start.files, accs, 1, << >>)
        usage_items == SelectSeq(items, IsUsageItem)
        seq == SequentialRegionLoop(SeqAcc(at_start.coll, << >>, << >>), accs[Len(accs)],
                                    RegionsOrDefault(cy_regions[accs[Len(accs)]]), 1)
        concurrent == use_concurrent /\ Len(accs) > 1
        c1 == IF concurrent
              THEN IF cycle_collect_usage /\ usage_items # << >>
                   THEN ApplyUsageItems(at_start.coll, usage_items, 1)
                   ELSE at_start.coll
              ELSE seq.coll
        rs == IF concurrent
              THEN SelectSeq(items, LAMBDA item : ~IsUsageItem(item))
              ELSE seq.all_results
        c2 == IF rs # << >> THEN CollectAllTo(c1, rs, 1) ELSE c1
    IN  IF cycle_collect_usage /\ "cloudfront" \in CycleServices
                               /\ "cloudfront" \in usage_collectors
        THEN ReapplyCloudfront(c2, accs, 1)
        ELSE c2

\* The series of an aggregator state: the three gauges and the two counters.
SeriesOf(c) == <<c.g, c.errors, c.skipped>>

(***************************************************************************)
(* C21: at the end of a cycle the series of the aggregator are those that  *)
(* the cycle yields when the accounts are processed and complete in the    *)
(* opposite order; the workers of the cycle itself complete in every       *)
(* order.                                                                  *)
(***************************************************************************)
C21_SeriesOrderIndependent ==
    CycleDone => SeriesOf(CollState) = SeriesOf(CycleOutcome(cy_start, Reverse(accounts)))

(***************************************************************************)
(* C22: the region set that get_regions returns for an account was         *)
(* discovered at most the ttl (24h) before the call: a set discovered      *)
(* longer ago is not returned, the candidate regions are probed again.     *)
(***************************************************************************)
C22_RegionSetNeverOlderThanTtl ==
    rp_last.called => rp_last.time - rp_last.discovered <= RegionsCacheTtl

\* The result a step of the retry loop appended.
AppendedResult == region_results'[Len(region_results')]

(***************************************************************************)
(* C23: a call of the remote limit API is followed by another call of the  *)
(* same fetch only when it ended in a rate-limit error; a call that ends   *)
(* in any other error ends the fetch at once with a Failed result for the  *)
(* quota (a fetch that was never throttled has then made exactly one       *)
(* call), whose reason is quota_not_found for NoSuchResourceException,     *)
(* permission_denied for AccessDeniedException and api_error otherwise,    *)
(* and whose error is the error text.                                      *)
(***************************************************************************)
C23_CallStep ==
    w_fetch'.attempts > w_fetch.attempts =>
        /\ w_fetch'.outcome = "pending" => w_fetch'.throttled = w_fetch.throttled + 1
        /\ (w_fetch'.outcome # "success" /\ w_fetch'.throttled = w_fetch.throttled) =>
              /\ w_fetch'.outcome = "failed"
              /\ w_pc' = "quota"
              /\ w_fetch'.attempts = w_fetch.throttled + 1
              /\ Len(region_results') = Len(region_results) + 1
              /\ is_failed(AppendedResult)
              /\ AppendedResult.quota_code = w_fetch.quota_code
              /\ AppendedResult.error \in ApiErrors \ {"TooManyRequestsException"}
              /\ AppendedResult.reason =
                    (IF AppendedResult.error = "NoSuchResourceException"
                     THEN "quota_not_found"
                     ELSE IF AppendedResult.error = "AccessDeniedException"
                     THEN "permission_denied"
                     ELSE "api_error")
C23_OtherErrorsNotRetried == [][C23_CallStep]_vars

\* C23 witness: a fetch ended after its only call, which was denied, and
\* the quota has its Failed result with reason permission_denied.
C23_Witness ==
    /\ w_pc = "quota"
    /\ w_fetch.outcome = "failed"
    /\ w_fetch.attempts = 1
    /\ w_fetch.throttled = 0
    /\ Len(region_results) >= 1
    /\ is_failed(region_results[Len(region_results)])
    /\ region_results[Len(region_results)].quota_code = w_fetch.quota_code
    /\ region_results[Len(region_results)].error = "AccessDeniedException"
    /\ region_results[Len(region_results)].reason = "permission_denied"

(***************************************************************************)
(* C24: the Failed result of a fetch that was given up after three         *)
(* rate-limit errors has a reason of its own, distinct from the reasons    *)
(* for not-found, permission-denied and the generic one, and add_result    *)
(* tags the error counter of the result with that same classification.     *)
(***************************************************************************)
C24_AbandonedFetchIsThrottled ==
    (w_pc = "quota" /\ AbandonedAfterThreeThrottles) =>
        LET r == region_results[Len(region_results)]
        IN  /\ is_failed(r)
            /\ r.quota_code = w_fetch.quota_code
            /\ r.reason \notin {"quota_not_found", "permission_denied", "api_error"}
            /\ ErrorType(r.error) = r.reason

\* add_result has just processed a Skipped result for whose quota code the
\* aggregator holds a usage value.
AfterAddSkippedWithUsage ==
    /\ coll_last.op = "add_result"
    /\ Len(results) >= 1
    /\ is_skipped(LastResult)
    /\ HasUsageValue(usage_data, LastResult.account_id, LastResult.region,
                     LastResult.service, LastResult.quota_code)

(***************************************************************************)
(* C25: when add_result has processed a Skipped result and a usage value   *)
(* for its (account, region, service, quota code) was already stored, the  *)
(* usage series of the quota holds that value, its usage-percent series is *)
(* not-a-number, and the quota has a limit series entry only if a Success  *)
(* result of the same quota was submitted.                                 *)
(***************************************************************************)
C25_SkippedResultTakesStoredUsage ==
    AfterAddSkippedWithUsage =>
        LET r == LastResult IN
        /\ LabelsOf(r) \in DOMAIN quota_usage
        /\ quota_usage[LabelsOf(r)] =
              Num(GetUsageValue(usage_data, r.account_id, r.region, r.service, r.quota_code))
        /\ LabelsOf(r) \in DOMAIN quota_usage_percent
        /\ quota_usage_percent[LabelsOf(r)] = NaN
        /\ LabelsOf(r) \in DOMAIN quota_limit =>
              \E i \in 1..Len(results) :
                  is_success(results[i]) /\ LabelsOf(results[i]) = LabelsOf(r)

\* all_results holds a result of the service for the account in the region.
ServiceResultIn(a, service_region, service) ==
    \E i \in 1..Len(all_results) :
        /\ all_results[i].account_id = a
        /\ all_results[i].service = service
        /\ all_results[i].region = service_region

\* Every configured quota of every service but the given one has a result
\* for the account in the iteration of the region.
OtherServicesCollected(a, region, service) ==
    \A other \in CycleServices \ {service} : \A q \in CodesOfService(other) :
        ResultFor(a, region, other, q)

(***************************************************************************)
(* C26: at the end of a limit cycle, for every discover_quotas call whose  *)
(* catalog call failed: the call returned the empty list, all_results has  *)
(* no result of that service for that account and region, and the other    *)
(* services have their results in that region, in every region of that     *)
(* account and, in concurrent mode, in every region of every account.      *)
(***************************************************************************)
C26_CatalogFailureOnlyLosesTheService ==
    (CycleDone /\ cycle_collect_limit) =>
        \A i \in 1..Len(cy_discoveries) :
            LET d == cy_discoveries[i] IN
            ~d.ok =>
                /\ d.value = << >>
                /\ ~ServiceResultIn(d.account_id, d.region, d.service)
                /\ \A region \in RegionSetOf(d.account_id) :
                       OtherServicesCollected(d.account_id, region, d.service)
                /\ ConcurrentMode =>
                       \A a \in AccountSet : \A region \in RegionSetOf(a) :
                           /\ OtherServicesCollected(a, region, d.service)
                           /\ \E j \in 1..Len(cy_discoveries) :
                                  /\ cy_discoveries[j].account_id = a
                                  /\ cy_discoveries[j].region = region

\* C26 witness: a concurrent limit cycle has ended in which the catalog
\* call failed in two regions of one account and in the region of the
\* other, and the cycle has results of the other services.
C26_Witness ==
    /\ CycleDone
    /\ cycle_collect_limit
    /\ ConcurrentMode
    /\ ~cy_catalog.ok
    /\ Len(cy_discoveries) >= 3
    /\ \A i \in 1..Len(cy_discoveries) : ~cy_discoveries[i].ok
    /\ \E i, j \in 1..Len(cy_discoveries) :
           cy_discoveries[i].account_id # cy_discoveries[j].account_id
    /\ \E i \in 1..Len(all_results) : all_results[i].service = "route53"

\* The accounts a client or a collector was called for in the cycle.
ClientAccounts == {cy_clients[i].account_id : i \in 1..Len(cy_clients)}

\* Every configured quota has a result for the account in each of its regions.
AccountCollected(a) ==
    \A region \in RegionSetOf(a) :
        \A service \in CycleServices : \A q \in CodesOfService(service) :
            ResultFor(a, region, service, q)

(***************************************************************************)
(* C27: at the end of a cycle every client and every usage collector       *)
(* called for an account was given the stored keys of that account if      *)
(* get_credentials answered them, and no keys if it raised or answered     *)
(* nothing; an account whose resolution failed still has its calls and, in *)
(* a limit cycle, its results; and in concurrent mode every account of the *)
(* list has them.                                                          *)
(***************************************************************************)
C27_CredentialFailureFallsBackToDefault ==
    CycleDone =>
        /\ \A i \in 1..Len(cy_clients) :
               cy_clients[i].credentials =
                   IF cy_creds[cy_clients[i].account_id] = "stored"
                   THEN Credentials(cy_clients[i].account_id)
                   ELSE NoCredentials
        /\ ConcurrentMode => ClientAccounts = AccountSet
        /\ ClientAccounts # {}
        /\ cycle_collect_limit => \A a \in ClientAccounts : AccountCollected(a)

\* C27 witness: a concurrent limit cycle has ended in which the resolution
\* failed for one account, whose clients were built without keys and whose
\* quotas have results, while the clients of the other account were built
\* with that account's keys.
C27_Witness ==
    /\ CycleDone
    /\ ConcurrentMode
    /\ cycle_collect_limit
    /\ \E a, b \in AccountSet :
           /\ cy_creds[a] = "raises"
           /\ cy_creds[b] = "stored"
           /\ AccountCollected(a)
           /\ AccountCollected(b)
           /\ \E i, j \in 1..Len(cy_clients) :
                  /\ cy_clients[i].account_id = a
                  /\ cy_clients[i].credentials = NoCredentials
                  /\ cy_clients[j].account_id = b
                  /\ cy_clients[j].credentials = Credentials(b)

(***************************************************************************)
(* C28: every fetch of a discovered quota, in a worker of the concurrent   *)
(* branch, goes the way of a static one: with a valid cache entry and      *)
(* force-refresh off there is no remote call; otherwise the remote API is  *)
(* called and a successful response is written to the cache.               *)
(***************************************************************************)
C28_DiscoveredQuotaUsesCache ==
    ConcurrentMode =>
        \A i \in 1..Len(cy_fetches) :
            cy_fetches[i].quota_code \in DiscoveredCodes =>
                /\ (cy_fetches[i].valid /\ ~cycle_force_refresh) => ~cy_fetches[i].called
                /\ ~cy_fetches[i].valid =>
                       /\ cy_fetches[i].called
                       /\ cy_fetches[i].status = "success" => cy_fetches[i].wrote

\* The step of the cloudfront re-application pass.
ReapplyStep == cy_pc = "reapply" /\ cy_pc' = "done"

\* Every result of the cycle is in the aggregator.
AllResultsSubmitted ==
    \A i \in 1..Len(all_results) : \E j \in 1..Len(results) : results[j] = all_results[i]

\* Every configured cloudfront quota whose code is in the stored snapshot
\* of an account of the list has that value in the usage series.
CloudfrontUsageApplied ==
    \A a \in AccountSet : \A k \in 1..Len(QuotasOf("cloudfront")) :
        LET quota == QuotasOf("cloudfront")[k]
            labels == Labels(a, DefaultRegion, "cloudfront", quota.quota_name,
                             quota.quota_code)
        IN  HasUsageValue(usage_data, a, DefaultRegion, "cloudfront", quota.quota_code) =>
                /\ labels \in DOMAIN quota_usage
                /\ quota_usage[labels] =
                      Num(GetUsageValue(usage_data, a, DefaultRegion, "cloudfront",
                                        quota.quota_code))

(***************************************************************************)
(* C29: in a cycle that collects usage and limits, the cloudfront          *)
(* re-application step is taken only when every worker of the cycle has    *)
(* been merged and every result of the cycle is in the aggregator; and at  *)
(* the end of the cycle every configured cloudfront quota whose code is in *)
(* the stored snapshot of an account has the snapshot's value in the usage *)
(* series.                                                                 *)
(***************************************************************************)
C29_ReapplicationAfterBothPhases ==
    /\ [][(cycle_collect_limit /\ cycle_collect_usage /\ ReapplyStep) =>
             /\ ConcurrentMode => PoolDrained
             /\ AllResultsSubmitted]_vars
    /\ []((CycleDone /\ cycle_collect_limit /\ cycle_collect_usage) =>
             CloudfrontUsageApplied)

\* C29 witness: a concurrent cycle that collected usage and limits has
\* ended after the re-application pass, and the cloudfront quota of each
\* account has the value of the stored snapshot in the usage series.
C29_Witness ==
    /\ CycleDone
    /\ ConcurrentMode
    /\ cycle_collect_limit /\ cycle_collect_usage
    /\ AllResultsSubmitted
    /\ CloudfrontUsageApplied
    /\ \A a \in AccountSet :
           HasUsageValue(usage_data, a, DefaultRegion, "cloudfront", "L-24B04930")

\* The quota a result is about.
QuotaKey(r) == <<r.account_id, r.region, r.service, r.quota_code>>

(***************************************************************************)
(* C30: at the end of a limit cycle every result the aggregator holds is a *)
(* result of that cycle, and it holds at most one result per (account,     *)
(* region, service, quota code), so that the total of get_summary is the   *)
(* number of quotas.                                                       *)
(***************************************************************************)
C30_OnlyLatestCycleRetained ==
    (CycleDone /\ cycle_collect_limit) =>
        /\ \A i \in 1..Len(results) :
               \E j \in 1..Len(all_results) : QuotaKey(all_results[j]) = QuotaKey(results[i])
        /\ Len(results) = Len(all_results)
        /\ \A i, j \in 1..Len(results) :
               QuotaKey(results[i]) = QuotaKey(results[j]) => i = j

\* The fetches of the cycle that called the remote API for the quota of
\* the account.
RemoteCalls(a, service, quota_code) ==
    {i \in 1..Len(cy_fetches) :
        /\ cy_fetches[i].account_id = a
        /\ cy_fetches[i].service = service
        /\ cy_fetches[i].quota_code = quota_code
        /\ cy_fetches[i].called}

(***************************************************************************)
(* C31: in a limit cycle, for every account and every quota of a global    *)
(* service, at most one evaluation calls the remote limit API, however     *)
(* many regions the account is collected in.                               *)
(***************************************************************************)
C31_GlobalServiceFetchedOncePerAccount ==
    cycle_collect_limit =>
        \A a \in CycleAccounts : \A service \in CycleServices \cap global_services :
            \A q \in CodesOfService(service) :
                Cardinality(RemoteCalls(a, service, q)) <= 1

\* The region a result or a usage item of the service may carry.
CarriesServiceRegion(item) ==
    IF item.service \in global_services
    THEN item.region = DefaultRegion
    ELSE item.region \in RegionSetOf(item.account_id)

(***************************************************************************)
(* C32: every result and every usage item of a cycle, in either mode,      *)
(* carries us-east-1 when its service is global and a region the account   *)
(* is collected in when its service is regional; so does every snapshot    *)
(* key the cycle stores.                                                   *)
(***************************************************************************)
C32_GlobalServiceCarriesFixedRegion ==
    /\ \A i \in 1..Len(all_results) : CarriesServiceRegion(all_results[i])
    /\ \A i \in 1..Len(usage_data_list) : CarriesServiceRegion(usage_data_list[i])
    /\ \A key \in DOMAIN usage_data \ DOMAIN cy_start.coll.usage_data :
           key[3] \in global_services => key[2] = DefaultRegion

(***************************************************************************)
(* C33: get_training_job_count never consumes more than max_pages pages    *)
(* and consumes no page once the elapsed time has exceeded                 *)
(* timeout_seconds; when either limit is met it has returned, not raised,  *)
(* and whenever it has returned the value is the sum of the sizes of the   *)
(* pages it consumed.                                                      *)
(***************************************************************************)
C33_PageCeilingAndTimeoutReturnPartialCount ==
    tj_pc # "idle" =>
        /\ page_count <= tj_max_pages
        /\ tj_pc = "paging" =>
               (tj_elapsed <= tj_timeout_seconds /\ page_count < tj_max_pages)
        /\ (tj_elapsed > tj_timeout_seconds \/ page_count >= tj_max_pages) =>
               tj_pc = "returned"
        /\ tj_pc = "returned" => tj_ret = tj_consumed

\* C33 witness: the call returned a partial count after the page at whose
\* end the timeout was exceeded, below the page ceiling and with jobs
\* counted on more than one page.
C33_Witness ==
    /\ tj_pc = "returned"
    /\ tj_elapsed > tj_timeout_seconds
    /\ page_count >= 2
    /\ page_count < tj_max_pages
    /\ tj_ret = tj_consumed
    /\ tj_ret >= 2

\* The construction of a client raised while the services of the region were
\* processed: the client of the region itself was constructed, the client of
\* a global service was not.
RaisedAmongServices(region) ==
    /\ region \notin cy_client_fail
    /\ \E service \in CycleServices \cap global_services :
           ServiceRegion(service, region) \in cy_client_fail

\* What the region produced before the exception: a result per configured
\* quota of the regional services, and the usage snapshots of its usage loop.
RegionOutputKept(a, region) ==
    /\ \A service \in CycleServices \ global_services :
           \A q \in CodesOfService(service) : ResultFor(a, region, service, q)
    /\ cycle_collect_usage =>
           \A service \in (CycleServices \ global_services)
                              \cap usage_collectors \cap cy_usage :
               <<a, region, service>> \in DOMAIN usage_data

(***************************************************************************)
(* C34: at the end of a limit cycle, for every account and every region in *)
(* which the construction of the client of a global service raised while   *)
(* the services were processed, the results of the regional services of    *)
(* that region are in all_results and the usage snapshots of that region   *)
(* are stored.                                                             *)
(***************************************************************************)
C34_ServiceErrorKeepsRegionOutput ==
    (CycleDone /\ cycle_collect_limit) =>
        \A a \in AccountSet : \A region \in RegionSetOf(a) :
            RaisedAmongServices(region) => RegionOutputKept(a, region)

\* C34 counterexample: a concurrent limit cycle has ended, the client of a
\* global service raised in a region of an account, and all_results has no
\* result of that account for that region.
C34_RegionOutputDiscarded ==
    ~ (/\ CycleDone
       /\ cycle_collect_limit
       /\ ConcurrentMode
       /\ \E a \in AccountSet : \E region \in RegionSetOf(a) :
              /\ RaisedAmongServices(region)
              /\ ~ \E i \in 1..Len(all_results) :
                       all_results[i].account_id = a /\ all_results[i].region = region)

\* The same property in the sequential branch, for the account that branch
\* works on: it appends to all_results and stores the snapshots as it goes.
C34_SequentialKeepsRegionOutput ==
    (CycleDone /\ cycle_collect_limit /\ ~ConcurrentMode) =>
        \A region \in RegionSetOf(accounts[Len(accounts)]) :
            RaisedAmongServices(region) =>
                RegionOutputKept(accounts[Len(accounts)], region)

\* The threads of loop k that have not left their loop.
ActiveLoops(k) == {i \in 1..Len(threads[k]) : Alive(k, i)}

(***************************************************************************)
(* C35: after any sequence of start() and stop() calls at most one thread  *)
(* of the limit loop and at most one thread of the usage loop is active    *)
(* (so no two threads of a loop are in or about to enter the callback for  *)
(* the same interval).                                                     *)
(***************************************************************************)
C35_AtMostOneLoopOfAKind ==
    \A k \in LoopKinds : Cardinality(ActiveLoops(k)) <= 1

\* C35 counterexample: after stop() and start() a thread of an earlier
\* start() is in the callback of a loop while the thread of the later
\* start() is active in the same loop.
C35_EarlierLoopStillActive ==
    ~ \E k \in LoopKinds : \E i, j \in ActiveLoops(k) :
          i < j /\ threads[k][i].pc = "callback" /\ running

\* C35 counterexample as a step: start() creates the threads of a new start
\* while a thread of an earlier start is in a time.sleep that has time left
\* (the join of stop() has timed out on it).
C35_StartBesideSleepingLoop ==
    [][~ (/\ ~running /\ running'
          /\ \E k \in LoopKinds : \E i \in 1..Len(threads[k]) :
                 threads[k][i].pc = "sleeping" /\ threads[k][i].remaining > 0)]_vars

\* The part of C35 about start() while running: it creates no thread.
C35_StartWhileRunningCreatesNoThread ==
    [][(running /\ running') =>
          \A k \in LoopKinds : Len(threads'[k]) = Len(threads[k])]_vars

\* The usage-percent series of the labels agrees with their limit and usage
\* series: with a limit L > 0 and a usage number U it holds U / L * 100.
PercentAgrees(labels) ==
    (/\ labels \in DOMAIN quota_usage
     /\ quota_limit[labels][1] > 0
     /\ quota_usage[labels] # NaN) =>
        /\ labels \in DOMAIN quota_usage_percent
        /\ quota_usage_percent[labels] =
               Ratio(quota_usage[labels][1] * 100, quota_limit[labels][1])

(***************************************************************************)
(* C36: after any sequence of add_result and set_usage_data calls, every   *)
(* label set whose limit series holds L > 0 and whose usage series holds a *)
(* number U has U / L * 100 in its usage-percent series.                   *)
(***************************************************************************)
C36_PercentFollowsLimitAndUsage ==
    \A labels \in DOMAIN quota_limit : PercentAgrees(labels)

\* C36 counterexample: set_usage_data has run, and a label set with a limit
\* above zero and a usage number has not-a-number as its percent.
C36_PercentNotANumber ==
    ~ (/\ coll_last.op = "set_usage_data"
       /\ \E labels \in DOMAIN quota_limit :
              /\ labels \in DOMAIN quota_usage
              /\ quota_limit[labels][1] > 0
              /\ quota_usage[labels] # NaN
              /\ quota_usage_percent[labels] = NaN)

\* The property of C36 while no Skipped result has been submitted.
C36_HoldsWithoutSkippedResults ==
    (\A i \in 1..Len(results) : ~is_skipped(results[i])) =>
        \A labels \in DOMAIN quota_limit : PercentAgrees(labels)

\* The usage series of a Success result shows the stored snapshot of its
\* (account, region, service): the value of its code, or not-a-number.
UsageShowsSnapshot(r) ==
    quota_usage[LabelsOf(r)] =
        IF HasUsageValue(usage_data, r.account_id, r.region, r.service, r.quota_code)
        THEN Num(GetUsageValue(usage_data, r.account_id, r.region, r.service, r.quota_code))
        ELSE NaN

(***************************************************************************)
(* C39: after any sequence of add_result and set_usage_data calls, the     *)
(* usage series of every quota with a Success result holds the value of    *)
(* its code in the stored snapshot of its (account, region, service), and  *)
(* not-a-number when the stored snapshot lacks the code.                   *)
(***************************************************************************)
C39_UsageSeriesShowsCurrentSnapshot ==
    \A i \in 1..Len(results) :
        is_success(results[i]) => UsageShowsSnapshot(results[i])

\* C39 counterexample: set_usage_data has replaced the snapshot of a quota
\* with a Success result by one that lacks its code, and the usage series
\* still holds a number.
C39_ReplacedValueVisible ==
    ~ (/\ coll_last.op = "set_usage_data"
       /\ \E i \in 1..Len(results) :
              /\ is_success(results[i])
              /\ coll_last.key = <<results[i].account_id, results[i].region,
                                   results[i].service>>
              /\ results[i].quota_code \notin DOMAIN usage_data[coll_last.key]
              /\ quota_usage[LabelsOf(results[i])] # NaN)

\* The part of C39 that holds: right after add_result of a Success result
\* its usage series shows the stored snapshot.
C39_HoldsAfterAddResult ==
    (coll_last.op = "add_result" /\ is_success(results[Len(results)])) =>
        UsageShowsSnapshot(results[Len(results)])

\* Two aggregator calls of one cycle with a call of another cycle between.
Interleaved ==
    \E i, j, k \in 1..Len(write_log) :
        i < j /\ j < k /\ write_log[i] = write_log[k] /\ write_log[j] # write_log[i]

(***************************************************************************)
(* C37: the aggregator calls of the scheduled limit cycle, the scheduled   *)
(* usage cycle and a manually triggered cycle never interleave: between    *)
(* two calls of one cycle there is no call of another cycle.               *)
(***************************************************************************)
C37_CyclesDoNotInterleave == ~Interleaved

\* C37 counterexample: the scheduled limit cycle and the manually triggered
\* cycle have both added the same quota, and the result list holds a result
\* of the other cycle between the two results of one cycle.
C37_ResultListsInterleaved ==
    ~ (/\ Len(results) >= 3
       /\ results[1].quota_code = "q1"
       /\ results[2].quota_code = "q1"
       /\ results[3].quota_code = "q2"
       /\ Interleaved)

\* collect_quotas has left the branch it took.
BranchLeft == cy_pc \notin {"idle", "sequential", "pool"}

(***************************************************************************)
(* C38: collect_quotas called with an empty account list does not raise,   *)
(* submits no result and no usage snapshot, and leaves the aggregator with *)
(* its series as it found it.                                              *)
(***************************************************************************)
C38_EmptyAccountListCompletes ==
    (accounts = << >> /\ BranchLeft) =>
        /\ cy_pc # "raised"
        /\ all_results = << >>
        /\ usage_data_list = << >>
        /\ CollState = cy_start.coll

\* C38 counterexample: a usage cycle over the empty account list has raised.
C38_EmptyAccountListRaises ==
    ~ (accounts = << >> /\ cycle_collect_usage /\ cy_pc = "raised")

\* The part of C38 that holds: with the empty account list nothing is
\* submitted and the aggregator stays as the cycle found it.
C38_NothingSubmitted ==
    accounts = << >> =>
        /\ all_results = << >>
        /\ usage_data_list = << >>
        /\ CollState = cy_start.coll
        /\ cy_fetches = << >>


====
